---- MODULE Spec2Model ----
(***************************************************************************)
(* Wave-digital RC filters (WDFilter hierarchy, factory) and the diode     *)
(* clipper of wdf-sallenkey.                                               *)
(*                                                                         *)
(* Number representation (the code uses double / float):                   *)
(*   sample rates        Hz, integers                                      *)
(*   cutoffs (filters)   deci-hertz   (20 Hz = 200)                        *)
(*   bandwidth           tenths of an octave (0.1 octave = 1)              *)
(*   resistances         centi-ohm                                         *)
(*   waves / voltages    millivolt    (1.0 = 1000)                         *)
(*   ratios              per-mille  (FS = 1000), reflection coefficients   *)
(*                       per-cent   (CS = 100)                             *)
(* NaN and Inf are sentinels for the non-finite results of a division by   *)
(* zero.                                                                   *)
(***************************************************************************)
EXTENDS Integers, Sequences, FiniteSets, TLC

VARIABLES
    filter,     \* the filter object under test (NoFilter before construction)
    lastOp,     \* the most recent call made on the object, with its arguments
                \* (for create: also whether jassertfalse was reached)
    prevOp,     \* the call before that, in the sequences Remember keeps
    out,        \* the value returned by the most recent processSample
    pushed,     \* what the most recent diode-clipper processSample pushed into the tree
    nSamples,   \* processSample calls made on this object so far
    nParams,    \* setParameters calls made on this object so far
    prepares,   \* the prepare calls made on this object: "none", "valid" (every
                \* Fs had 20 <= 0.45 Fs) or "degenerate" (some Fs had not)
    tuned,      \* a WDFilter on which prepare, setCutoff or setBandwidth was called
    ramp,       \* the cutoff ramp in progress on the diode clipper: the clamped
                \* target of the setParameters call that started it, and the
                \* processSample calls and resistance updates since that call
    ctl,        \* where a control thread stands inside a setter of a two-stage
                \* filter: Idle, or between the update of stage1 and of stage2
    wav,        \* the file written by the most recent utils::exportWAV call
                \* (NoFile if it could not be opened)
    plugin      \* an AudioPluginAudioProcessor of one of the two reference
                \* plugins: parameter tree, filter objects, the audio thread's
                \* position in processBlock, the calls it made on the filter

vars == <<filter, lastOp, prevOp, out, pushed, nSamples, nParams, prepares, tuned, ramp,
         ctl, wav, plugin>>

----------------------------------------------------------------------------
(* Bounds of the exploration *)

MaxSamples == 1
MaxClipperSamples == 3
MaxParamCalls == 2
MaxRun == 500
MaxBlocks == 2
MaxWavSamples == 2

(* Scales of the fixed-point representation and the non-finite sentinels *)

FS == 10 * 100
CS == 10 * 10
Inf == 2 * 1000000000
NaN == Inf + 1

(* Program constants *)

MinCutoff == 200            \* 20.0 Hz
NyquistPct == 45            \* 0.45 of the sample rate
DefaultSampleRate == 44100
DefaultCutoff == 10000      \* 1000.0 Hz
LP_R0 == 100000             \* r1(1.0e3)
HP_R0 == 150000             \* r1(1.5e3)
LP_C == 10                  \* c1(1.0e-6), in units of 100 nF
LP_Cformula == 10           \* constexpr double C = 1.0e-6
HP_C == 1                   \* c1(1.0e-7)
HP_Cformula == 1            \* constexpr double C = 1.0e-7
RCK == 1591549431           \* 1 / (2 pi 100 nF), centi-ohm deci-hertz
CapK == 500000000           \* 1 / (2 * 100 nF), centi-ohm hertz
CapDefaultFs == 48000       \* CapacitorT's sample rate before prepare
HP2_k == 1553               \* _k{1.553}
DefaultBandwidth == 10      \* bandwidthInOctaves{1.0}
MinBandwidth == 1           \* jmax(0.1, octaves)
Gain1st == 1500             \* x *= 1.5
Gain2nd == 1450             \* x *= 1.45

DC_RK == 338627539          \* 1 / (2 pi Cval), Cval = 47 nF, deci-ohm deci-hertz
DC_CK == 106382979          \* 1 / (2 Cval), deci-ohm hertz
DC_R0fc == 10000            \* Vs{R_from_fc(1000.0f)}
DC_Is0 == 2520              \* 2.52e-9 A, in pA
DC_N0 == 2000               \* DiodePairT's default of 2 diodes, in thousandths
Vt == 2585                  \* 0.02585 V, in units of 10 uV
PrepCutoff == 5000          \* setCurrentAndTargetValue(500.0f)
PrepDiodes == 2000          \* setCurrentAndTargetValue(2.0f)
RampPct == 1                \* reset(fs, 0.01): ramp length in hundredths of a second
PcmScale == 32767
FmtSize == 16
AudioFormat == 1
NumChannels == 1
BytesPerSample == 2
BitsPerSample == 16
MulInit == 10               \* SmoothedValue<Multiplicative>() starts at 1
LinInit == 0                \* SmoothedValue<Linear>() starts at 0
DC_Fs0 == 48000             \* fs{48000.0}

(* WDFilter::Type and WDFilter::Order, by enumerator value *)
LowPass == 0
HighPass == 1
BandPass == 2
First == 0
Second == 1

NoFilter == [cls |-> "none"]

----------------------------------------------------------------------------
(* Arithmetic helpers *)

IsNum(v) == v # NaN /\ v # Inf /\ v # -Inf

Abs(a) == IF a < 0 THEN -a ELSE a

\* the largest magnitude kept finite: beyond it a result overflows to +-Inf
Big == Inf \div 2

Sat(v) == IF v > Big THEN Inf ELSE IF v < -Big THEN -Inf ELSE v

\* IEEE division a / b on finite operands: x/0 is +-Inf, 0/0 is NaN
Div(a, b) ==
    IF ~IsNum(a) \/ ~IsNum(b) THEN NaN
    ELSE IF b = 0 THEN (IF a = 0 THEN NaN ELSE IF a > 0 THEN Inf ELSE -Inf)
    ELSE a \div b

Neg(a) == IF a = NaN THEN NaN ELSE -a

Add(a, b) == IF IsNum(a) /\ IsNum(b) THEN Sat(a + b) ELSE NaN

\* c * w for a coefficient c scaled by s
Scale(c, w, s) ==
    IF ~IsNum(c) \/ ~IsNum(w) THEN NaN
    ELSE IF c = 0 \/ w = 0 THEN 0
    ELSE IF Abs(w) > Big \div Abs(c)
         THEN (IF (c > 0) = (w > 0) THEN Inf ELSE -Inf)
    ELSE (c * w) \div s

Half(a) == IF IsNum(a) THEN a \div 2 ELSE NaN

\* juce::jlimit(lower, upper, v)
jlimit(lower, upper, v) ==
    IF v < lower THEN lower ELSE IF upper < v THEN upper ELSE v

\* juce::jmax(a, b)
jmax(a, b) == IF a < b THEN b ELSE a

\* sampleRate * 0.45, in deci-hertz
MaxCutoff(sampleRate) == (sampleRate * NyquistPct) \div 10

\* std::pow(2.0, octaves / 2.0) per-mille, for the bandwidths the model uses
Pow2Half(bwTenths) ==
    CASE bwTenths = 1  -> 1035
      [] bwTenths = 10 -> 1414
      [] bwTenths = 20 -> 2000
      [] OTHER         -> 4000

----------------------------------------------------------------------------
(* chowdsp::wdft elements used by the filters *)

\* CapacitorT::calcImpedance: R = 1 / (2 C fs), C in units of 100 nF
CapacitorR(C, fs) == Div(CapK \div C, fs)

\* R = 1 / (2 pi fc C), C in units of 100 nF
ResistanceFor(fc, C) == Div(RCK \div C, fc)

Twice(x) == Add(x, x)

\* WDFSeriesT::calcImpedance: port1Reflect = R1 / (R1 + R2), per-cent
SeriesPort1Reflect(R1, R2) ==
    IF IsNum(R1) /\ (R2 = Inf \/ R2 = -Inf) THEN 0
    ELSE IF IsNum(R1) /\ IsNum(R2) THEN Div(R1 * CS, R1 + R2)
    ELSE NaN

----------------------------------------------------------------------------
(* WDFRCLowPass: series resistor, shunt capacitor (1 uF), output at the cap *)

LP1_new ==
    [cls |-> "WDFRCLowPass", sampleRate |-> DefaultSampleRate,
     cutoff |-> DefaultCutoff, r1 |-> LP_R0, c1fs |-> CapDefaultFs,
     z |-> 0, vin |-> 0]

\* R = 1 / (2 pi cutoff C), C = 1e-6; r1.setResistanceValue(R)
LP1_updateComponentValues(s) == [s EXCEPT !.r1 = ResistanceFor(s.cutoff, LP_Cformula)]

\* c1.prepare(fs) stores fs, recomputes the port resistance and clears z
\* a prepare that damps the capacitor state instead of clearing it
LP1_prepare_damped(s, newSampleRate) ==
    LP1_updateComponentValues(
        [s EXCEPT !.sampleRate = newSampleRate, !.c1fs = newSampleRate,
                  !.z = IF IsNum(s.z) THEN s.z \div 2 ELSE s.z])

LP1_prepare(s, newSampleRate) ==
    LP1_updateComponentValues(
        [s EXCEPT !.sampleRate = newSampleRate, !.c1fs = newSampleRate, !.z = 0])

\* a setCutoff that clamps to the Nyquist frequency instead of 0.45 Fs
LP1_setCutoff_nyquist(s, newFc) ==
    LP1_updateComponentValues(
        [s EXCEPT !.cutoff = jlimit(MinCutoff, s.sampleRate * 5, newFc)])

\* variant: a setCutoff that also clears the capacitor state
LP1_setCutoff_resetting(s, newFc) ==
    LP1_updateComponentValues(
        [s EXCEPT !.cutoff = jlimit(MinCutoff, MaxCutoff(s.sampleRate), newFc),
                  !.z = 0])

LP1_setCutoff(s, newFc) ==
    LP1_updateComponentValues(
        [s EXCEPT !.cutoff = jlimit(MinCutoff, MaxCutoff(s.sampleRate), newFc)])

LP1_getCutoff(s) == s.cutoff

\* vin.incident(inverter.reflected()); inverter.incident(vin.reflected());
\* s1 = series(r1, c1); returns the capacitor voltage (a + b) / 2
\* a processSample that returns the voltage across the resistor
LP1_processSample_acrossResistor(s, x) ==
    LET p   == SeriesPort1Reflect(s.r1, CapacitorR(LP_C, s.c1fs))
        bs  == Neg(Add(0, s.z))
        va  == Neg(bs)
        vb  == Add(Neg(va), Twice(x))
        xs  == Neg(vb)
        b1  == Add(0, Neg(Scale(p, Add(xs, Add(0, s.z)), CS)))
        zn  == Neg(Add(xs, b1))
    IN  [f |-> [s EXCEPT !.z = zn, !.vin = x], y |-> Half(Add(b1, 0))]

LP1_processSample(s, x) ==
    LET p   == SeriesPort1Reflect(s.r1, CapacitorR(LP_C, s.c1fs))
        bs  == Neg(Add(0, s.z))                    \* s1.reflected()
        va  == Neg(bs)                             \* inverter.reflected()
        vb  == Add(Neg(va), Twice(x))                 \* vin.reflected()
        xs  == Neg(vb)                             \* wave into s1
        b1  == Add(0, Neg(Scale(p, Add(xs, Add(0, s.z)), CS)))
        zn  == Neg(Add(xs, b1))                    \* c1.incident
    IN  [f |-> [s EXCEPT !.z = zn, !.vin = x], y |-> Half(Add(zn, s.z))]

----------------------------------------------------------------------------
(* WDFRCHighPass: series capacitor (100 nF), shunt resistor, output at r1 *)

HP1_new ==
    [cls |-> "WDFRCHighPass", sampleRate |-> DefaultSampleRate,
     cutoff |-> DefaultCutoff, r1 |-> HP_R0, c1fs |-> CapDefaultFs,
     z |-> 0, vin |-> 0]

\* an updateComponentValues that computes R with the low-pass capacitance
HP1_updateComponentValues_lowPassC(s) ==
    [s EXCEPT !.r1 = ResistanceFor(s.cutoff, LP_Cformula)]

HP1_updateComponentValues(s) == [s EXCEPT !.r1 = ResistanceFor(s.cutoff, HP_Cformula)]

HP1_prepare(s, newSampleRate) ==
    HP1_updateComponentValues(
        [s EXCEPT !.sampleRate = newSampleRate, !.c1fs = newSampleRate, !.z = 0])

\* a setCutoff that only limits the cutoff from above
HP1_setCutoff_upperOnly(s, newFc) ==
    HP1_updateComponentValues(
        [s EXCEPT !.cutoff = IF MaxCutoff(s.sampleRate) < newFc
                             THEN MaxCutoff(s.sampleRate) ELSE newFc])

HP1_setCutoff(s, newFc) ==
    HP1_updateComponentValues(
        [s EXCEPT !.cutoff = jlimit(MinCutoff, MaxCutoff(s.sampleRate), newFc)])

HP1_getCutoff(s) == s.cutoff

\* variant: a processSample that writes the adapted port resistance of the
\* series adaptor into the resistor
HP1_processSample_retuning(s, x) ==
    LET p   == SeriesPort1Reflect(CapacitorR(HP_C, s.c1fs), s.r1)
        bs  == Neg(Add(s.z, 0))
        va  == Neg(bs)
        vb  == Add(Neg(va), Twice(x))
        xs  == Neg(vb)
        b1  == Add(s.z, Neg(Scale(p, Add(xs, Add(s.z, 0)), CS)))
        ra  == Neg(Add(xs, b1))
    IN  [f |-> [s EXCEPT !.z = b1, !.vin = x,
                         !.r1 = Add(CapacitorR(HP_C, s.c1fs), s.r1)],
         y |-> Half(Add(ra, 0))]

\* s1 = series(c1, r1); returns the resistor voltage (a + b) / 2 with b = 0
HP1_processSample(s, x) ==
    LET p   == SeriesPort1Reflect(CapacitorR(HP_C, s.c1fs), s.r1)
        bs  == Neg(Add(s.z, 0))
        va  == Neg(bs)
        vb  == Add(Neg(va), Twice(x))
        xs  == Neg(vb)
        b1  == Add(s.z, Neg(Scale(p, Add(xs, Add(s.z, 0)), CS)))
        ra  == Neg(Add(xs, b1))                    \* r1.incident
    IN  [f |-> [s EXCEPT !.z = b1, !.vin = x], y |-> Half(Add(ra, 0))]

----------------------------------------------------------------------------
(* Second-order cascades *)

LP2_new ==
    [cls |-> "WDFRC2LowPassCascade", fs |-> DefaultSampleRate,
     cutoff |-> DefaultCutoff, stage1 |-> LP1_new, stage2 |-> LP1_new]

LP2_prepare(c, Fs) ==
    [c EXCEPT !.fs = Fs,
              !.stage1 = LP1_prepare(c.stage1, Fs),
              !.stage2 = LP1_prepare(c.stage2, Fs)]

LP2_setCutoff(c, fc) ==
    LET cut == jlimit(MinCutoff, MaxCutoff(c.fs), fc)
    IN  [c EXCEPT !.cutoff = cut,
                  !.stage1 = LP1_setCutoff(c.stage1, cut),
                  !.stage2 = LP1_setCutoff(c.stage2, cut)]

\* a first part of setCutoff that already updates stage2 as well
LP2_setCutoff_stage1_both(c, fc) ==
    LET cut == jlimit(MinCutoff, MaxCutoff(c.fs), fc)
    IN  [c EXCEPT !.cutoff = cut,
                  !.stage1 = LP1_setCutoff(c.stage1, cut),
                  !.stage2 = LP1_setCutoff(c.stage2, cut)]

\* setCutoff up to and including stage1.setCutoff(cutoff)
LP2_setCutoff_stage1(c, fc) ==
    LET cut == jlimit(MinCutoff, MaxCutoff(c.fs), fc)
    IN  [c EXCEPT !.cutoff = cut,
                  !.stage1 = LP1_setCutoff(c.stage1, cut)]

\* the rest of setCutoff: stage2.setCutoff(cutoff)
LP2_setCutoff_stage2(c) ==
    [c EXCEPT !.stage2 = LP1_setCutoff(c.stage2, c.cutoff)]

LP2_getCutoff(c) == c.cutoff

LP2_processSample(c, x) ==
    LET r1 == LP1_processSample(c.stage1, x)
        r2 == LP1_processSample(c.stage2, r1.y)
    IN  [f |-> [c EXCEPT !.stage1 = r1.f, !.stage2 = r2.f], y |-> r2.y]

HP2_new ==
    [cls |-> "WDFRC2HighPassCascade", fs |-> DefaultSampleRate,
     cutoff |-> DefaultCutoff, stage1 |-> HP1_new, stage2 |-> HP1_new]

HP2_prepare(c, Fs) ==
    [c EXCEPT !.fs = Fs,
              !.stage1 = HP1_prepare(c.stage1, Fs),
              !.stage2 = HP1_prepare(c.stage2, Fs)]

\* a setCutoff that corrects the cutoff of the first stage only
HP2_setCutoff_firstStageOnly(c, fc) ==
    LET cut == jlimit(MinCutoff, MaxCutoff(c.fs), fc)
    IN  [c EXCEPT !.cutoff = cut,
                  !.stage1 = HP1_setCutoff(c.stage1, Div(cut * FS, HP2_k)),
                  !.stage2 = HP1_setCutoff(c.stage2, cut)]

\* both stages get cutoff / _k
HP2_setCutoff(c, fc) ==
    LET cut == jlimit(MinCutoff, MaxCutoff(c.fs), fc)
    IN  [c EXCEPT !.cutoff = cut,
                  !.stage1 = HP1_setCutoff(c.stage1, Div(cut * FS, HP2_k)),
                  !.stage2 = HP1_setCutoff(c.stage2, Div(cut * FS, HP2_k))]

HP2_getCutoff(c) == c.cutoff

HP2_processSample(c, x) ==
    LET r1 == HP1_processSample(c.stage1, x)
        r2 == HP1_processSample(c.stage2, r1.y)
    IN  [f |-> [c EXCEPT !.stage1 = r1.f, !.stage2 = r2.f], y |-> r2.y]

----------------------------------------------------------------------------
(* Band-pass filters: a high-pass stage1 followed by a low-pass stage2 *)

BP1_new ==
    [cls |-> "WDFRCBandPass1st", fs |-> DefaultSampleRate,
     cutoff |-> DefaultCutoff, bandwidthInOctaves |-> DefaultBandwidth,
     applyAutoGain |-> TRUE, stage1 |-> HP1_new, stage2 |-> LP1_new]

\* an updateCutoffs with the two edges of the band exchanged
BP1_updateCutoffs_swapped(b) ==
    LET ratio    == Pow2Half(b.bandwidthInOctaves)
        hpCutoff == jlimit(MinCutoff, MaxCutoff(b.fs), Div(b.cutoff * ratio, FS))
        lpCutoff == jlimit(MinCutoff, MaxCutoff(b.fs), Div(b.cutoff * FS, ratio))
    IN  [b EXCEPT !.stage1 = HP1_setCutoff(b.stage1, hpCutoff),
                  !.stage2 = LP1_setCutoff(b.stage2, lpCutoff)]

BP1_updateCutoffs(b) ==
    LET ratio    == Pow2Half(b.bandwidthInOctaves)
        hpCutoff == jlimit(MinCutoff, MaxCutoff(b.fs), Div(b.cutoff * FS, ratio))
        lpCutoff == jlimit(MinCutoff, MaxCutoff(b.fs), Div(b.cutoff * ratio, FS))
    IN  [b EXCEPT !.stage1 = HP1_setCutoff(b.stage1, hpCutoff),
                  !.stage2 = LP1_setCutoff(b.stage2, lpCutoff)]

BP1_prepare(b, Fs) ==
    BP1_updateCutoffs(
        [b EXCEPT !.fs = Fs,
                  !.stage1 = HP1_prepare(b.stage1, Fs),
                  !.stage2 = LP1_prepare(b.stage2, Fs)])

BP1_setCutoff(b, fc) ==
    BP1_updateCutoffs(
        [b EXCEPT !.cutoff = jlimit(MinCutoff, MaxCutoff(b.fs), fc)])

\* setCutoff up to and including stage1.setCutoff(hpCutoff) of updateCutoffs
BP1_setCutoff_stage1(b, fc) ==
    LET c        == [b EXCEPT !.cutoff = jlimit(MinCutoff, MaxCutoff(b.fs), fc)]
        ratio    == Pow2Half(c.bandwidthInOctaves)
        hpCutoff == jlimit(MinCutoff, MaxCutoff(c.fs), Div(c.cutoff * FS, ratio))
    IN  [c EXCEPT !.stage1 = HP1_setCutoff(c.stage1, hpCutoff)]

\* the local lpCutoff updateCutoffs has computed by then
BP1_lpCutoff(b) ==
    jlimit(MinCutoff, MaxCutoff(b.fs),
           Div(b.cutoff * Pow2Half(b.bandwidthInOctaves), FS))

\* the rest of updateCutoffs: stage2.setCutoff(lpCutoff)
BP1_setCutoff_stage2(b, lpCutoff) ==
    [b EXCEPT !.stage2 = LP1_setCutoff(b.stage2, lpCutoff)]

BP1_setBandwidth(b, octaves) ==
    BP1_updateCutoffs(
        [b EXCEPT !.bandwidthInOctaves = jmax(MinBandwidth, octaves)])

\* a processSample that steps the low-pass stage before the high-pass stage
BP1_processSample_lowPassFirst(b, x) ==
    LET xg == IF b.applyAutoGain THEN Scale(Gain1st, x, FS) ELSE x
        r2 == LP1_processSample(b.stage2, xg)
        r1 == HP1_processSample(b.stage1, r2.y)
    IN  [f |-> [b EXCEPT !.stage1 = r1.f, !.stage2 = r2.f], y |-> r1.y]

BP1_processSample(b, x) ==
    LET xg == IF b.applyAutoGain THEN Scale(Gain1st, x, FS) ELSE x
        r1 == HP1_processSample(b.stage1, xg)
        r2 == LP1_processSample(b.stage2, r1.y)
    IN  [f |-> [b EXCEPT !.stage1 = r1.f, !.stage2 = r2.f], y |-> r2.y]

BP2_new ==
    [cls |-> "WDFRCBandPass2nd", fs |-> DefaultSampleRate,
     cutoff |-> DefaultCutoff, bandwidthInOctaves |-> DefaultBandwidth,
     applyAutoGain |-> TRUE, stage1 |-> HP2_new, stage2 |-> LP2_new]

BP2_updateCutoffs(b) ==
    LET ratio    == Pow2Half(b.bandwidthInOctaves)
        hpCutoff == jlimit(MinCutoff, MaxCutoff(b.fs), Div(b.cutoff * FS, ratio))
        lpCutoff == jlimit(MinCutoff, MaxCutoff(b.fs), Div(b.cutoff * ratio, FS))
    IN  [b EXCEPT !.stage1 = HP2_setCutoff(b.stage1, hpCutoff),
                  !.stage2 = LP2_setCutoff(b.stage2, lpCutoff)]

BP2_prepare(b, Fs) ==
    BP2_updateCutoffs(
        [b EXCEPT !.fs = Fs,
                  !.stage1 = HP2_prepare(b.stage1, Fs),
                  !.stage2 = LP2_prepare(b.stage2, Fs)])

BP2_setCutoff(b, fc) ==
    BP2_updateCutoffs(
        [b EXCEPT !.cutoff = jlimit(MinCutoff, MaxCutoff(b.fs), fc)])

\* a setBandwidth that stores the argument as it is
BP2_setBandwidth_unclamped(b, octaves) ==
    BP2_updateCutoffs([b EXCEPT !.bandwidthInOctaves = octaves])

BP2_setBandwidth(b, octaves) ==
    BP2_updateCutoffs(
        [b EXCEPT !.bandwidthInOctaves = jmax(MinBandwidth, octaves)])

BP2_processSample(b, x) ==
    LET xg == IF b.applyAutoGain THEN Scale(Gain2nd, x, FS) ELSE x
        r1 == HP2_processSample(b.stage1, xg)
        r2 == LP2_processSample(b.stage2, r1.y)
    IN  [f |-> [b EXCEPT !.stage1 = r1.f, !.stage2 = r2.f], y |-> r2.y]

----------------------------------------------------------------------------
(* The WDFilter interface, dispatched on the dynamic class *)

FilterClasses ==
    {"WDFRCLowPass", "WDFRC2LowPassCascade", "WDFRCHighPass",
     "WDFRC2HighPassCascade", "WDFRCBandPass1st", "WDFRCBandPass2nd"}

BandPassClasses == {"WDFRCBandPass1st", "WDFRCBandPass2nd"}

prepare(f, Fs) ==
    CASE f.cls = "WDFRCLowPass"          -> LP1_prepare(f, Fs)
      [] f.cls = "WDFRC2LowPassCascade"  -> LP2_prepare(f, Fs)
      [] f.cls = "WDFRCHighPass"         -> HP1_prepare(f, Fs)
      [] f.cls = "WDFRC2HighPassCascade" -> HP2_prepare(f, Fs)
      [] f.cls = "WDFRCBandPass1st"      -> BP1_prepare(f, Fs)
      [] f.cls = "WDFRCBandPass2nd"      -> BP2_prepare(f, Fs)

setCutoff(f, fc) ==
    CASE f.cls = "WDFRCLowPass"          -> LP1_setCutoff(f, fc)
      [] f.cls = "WDFRC2LowPassCascade"  -> LP2_setCutoff(f, fc)
      [] f.cls = "WDFRCHighPass"         -> HP1_setCutoff(f, fc)
      [] f.cls = "WDFRC2HighPassCascade" -> HP2_setCutoff(f, fc)
      [] f.cls = "WDFRCBandPass1st"      -> BP1_setCutoff(f, fc)
      [] f.cls = "WDFRCBandPass2nd"      -> BP2_setCutoff(f, fc)

setBandwidth(f, octaves) ==
    CASE f.cls = "WDFRCBandPass1st"      -> BP1_setBandwidth(f, octaves)
      [] f.cls = "WDFRCBandPass2nd"      -> BP2_setBandwidth(f, octaves)

processSample(f, x) ==
    CASE f.cls = "WDFRCLowPass"          -> LP1_processSample(f, x)
      [] f.cls = "WDFRC2LowPassCascade"  -> LP2_processSample(f, x)
      [] f.cls = "WDFRCHighPass"         -> HP1_processSample(f, x)
      [] f.cls = "WDFRC2HighPassCascade" -> HP2_processSample(f, x)
      [] f.cls = "WDFRCBandPass1st"      -> BP1_processSample(f, x)
      [] f.cls = "WDFRCBandPass2nd"      -> BP2_processSample(f, x)

getCutoff(f) == f.cutoff

getBandwidth(f) == f.bandwidthInOctaves

\* the sample rate the object stored at its last prepare
SampleRateOf(f) ==
    IF f.cls \in {"WDFRCLowPass", "WDFRCHighPass"} THEN f.sampleRate ELSE f.fs

getType(f) ==
    CASE f.cls \in {"WDFRCLowPass", "WDFRC2LowPassCascade"}   -> LowPass
      [] f.cls \in {"WDFRCHighPass", "WDFRC2HighPassCascade"} -> HighPass
      [] f.cls \in BandPassClasses                            -> BandPass

getOrder(f) ==
    CASE f.cls = "WDFRCLowPass"          -> First
      [] f.cls = "WDFRC2LowPassCascade"  -> Second
      [] f.cls = "WDFRCHighPass"         -> First
      [] f.cls = "WDFRC2HighPassCascade" -> Second
      [] f.cls = "WDFRCBandPass1st"      -> Second
      [] f.cls = "WDFRCBandPass2nd"      -> Second

\* a factory whose every fallback is the first-order low-pass
create_lowPassFallback(type, order) ==
    CASE type = LowPass /\ order = First   -> [f |-> LP1_new, asserted |-> FALSE]
      [] type = LowPass /\ order = Second  -> [f |-> LP2_new, asserted |-> FALSE]
      [] type = HighPass /\ order = First  -> [f |-> HP1_new, asserted |-> FALSE]
      [] type = HighPass /\ order = Second -> [f |-> HP2_new, asserted |-> FALSE]
      [] type = BandPass /\ order = First  -> [f |-> BP1_new, asserted |-> FALSE]
      [] type = BandPass /\ order = Second -> [f |-> BP2_new, asserted |-> FALSE]
      [] OTHER -> [f |-> LP1_new, asserted |-> TRUE]

\* WDFilter::create: the object made and whether jassertfalse was reached
create(type, order) ==
    CASE type = LowPass ->
           (CASE order = First  -> [f |-> LP1_new, asserted |-> FALSE]
              [] order = Second -> [f |-> LP2_new, asserted |-> FALSE]
              [] OTHER          -> [f |-> LP1_new, asserted |-> TRUE])
      [] type = HighPass ->
           (CASE order = First  -> [f |-> HP1_new, asserted |-> FALSE]
              [] order = Second -> [f |-> HP2_new, asserted |-> FALSE]
              [] OTHER          -> [f |-> HP1_new, asserted |-> TRUE])
      [] type = BandPass ->
           (CASE order = First  -> [f |-> BP1_new, asserted |-> FALSE]
              [] order = Second -> [f |-> BP2_new, asserted |-> FALSE]
              [] OTHER          -> [f |-> BP1_new, asserted |-> TRUE])
      [] OTHER -> [f |-> LP1_new, asserted |-> TRUE]

----------------------------------------------------------------------------
(* juce::SmoothedValue<float, Multiplicative | Linear> *)

Min(a, b) == IF a < b THEN a ELSE b

PowCap == 46 * FS

\* r^n for per-mille r, saturating at PowCap
RECURSIVE PowFix(_, _)
PowFix(r, n) ==
    IF n = 0 THEN FS
    ELSE LET h  == PowFix(r, n \div 2)
             sq == Min((h * h) \div FS, PowCap)
         IN  IF n % 2 = 0 THEN sq ELSE Min((sq * r) \div FS, PowCap)

\* the largest r in lo..hi with r^n <= X
RECURSIVE RootFix(_, _, _, _)
RootFix(lo, hi, X, n) ==
    IF lo >= hi THEN lo
    ELSE LET mid == (lo + hi + 1) \div 2
         IN  IF PowFix(mid, n) <= X THEN RootFix(mid, hi, X, n)
             ELSE RootFix(lo, mid - 1, X, n)

\* exp((log |target| - log |currentValue|) / countdown), per-mille
MulStep(currentValue, target, countdown) ==
    LET a == IF target < 0 THEN -target ELSE target
        c == IF currentValue < 0 THEN -currentValue ELSE currentValue
    IN  IF c = 0 THEN (IF a = 0 THEN NaN ELSE Inf)
        ELSE IF a = 0 THEN 0
        ELSE RootFix(0, PowCap, Min((a * FS) \div c, PowCap), countdown)

Smoother(kind, v) ==
    [kind |-> kind, currentValue |-> v, target |-> v, countdown |-> 0,
     step |-> 0, stepsToTarget |-> 0]

isSmoothing(sm) == sm.countdown > 0

setCurrentAndTargetValue(sm, v) ==
    [sm EXCEPT !.currentValue = v, !.target = v, !.countdown = 0]

\* reset(sampleRate, rampLengthInSeconds): floor(ramp * sampleRate) steps
reset(sm, sampleRate) ==
    setCurrentAndTargetValue(
        [sm EXCEPT !.stepsToTarget = (RampPct * sampleRate) \div 100], sm.target)

setStepSize(sm) ==
    [sm EXCEPT !.step =
        IF sm.kind = "Multiplicative"
        THEN MulStep(sm.currentValue, sm.target, sm.countdown)
        ELSE (sm.target - sm.currentValue) \div sm.countdown]

setTargetValue(sm, newValue) ==
    IF newValue = sm.target THEN sm
    ELSE IF sm.stepsToTarget <= 0 THEN setCurrentAndTargetValue(sm, newValue)
    ELSE setStepSize([sm EXCEPT !.target = newValue,
                                !.countdown = sm.stepsToTarget])

setNextValue(sm) ==
    [sm EXCEPT !.currentValue =
        IF sm.kind = "Multiplicative" THEN Scale(sm.step, sm.currentValue, FS)
        ELSE sm.currentValue + sm.step]

\* the smoother after the call; the value returned is its currentValue
\* (its target when it was not smoothing)
getNextValue(sm) ==
    IF ~isSmoothing(sm) THEN sm
    ELSE LET d == [sm EXCEPT !.countdown = sm.countdown - 1]
         IN  IF isSmoothing(d) THEN setNextValue(d)
             ELSE [d EXCEPT !.currentValue = d.target]

----------------------------------------------------------------------------
(* WDFDiodeClipperJUCE: C1 parallel to the resistive source Vs, driving a  *)
(* diode pair.  Resistances in deci-ohm, saturation current in pA, diode   *)
(* count in thousandths.                                                   *)

R_from_fc(fc) == Div(DC_RK, fc)

DC_new ==
    [cls |-> "WDFDiodeClipperJUCE", fs |-> DC_Fs0, c1fs |-> CapDefaultFs,
     z |-> 0, c1a |-> 0, VsR |-> R_from_fc(DC_R0fc), VsV |-> 0,
     dIs |-> DC_Is0, dVt |-> Vt, dN |-> DC_N0,
     cutoffSmooth |-> Smoother("Multiplicative", MulInit),
     nDiodesSmooth |-> Smoother("Linear", LinInit),
     IsCurrent |-> DC_Is0]

DC_prepare(d, newSampleRate) ==
    [d EXCEPT !.fs = newSampleRate, !.c1fs = newSampleRate, !.z = 0,
              !.cutoffSmooth = setCurrentAndTargetValue(
                                  reset(d.cutoffSmooth, newSampleRate), PrepCutoff),
              !.nDiodesSmooth = setCurrentAndTargetValue(
                                  reset(d.nDiodesSmooth, newSampleRate), PrepDiodes)]

\* a setParameters that snaps the smoothers whatever forceNow says
DC_setParameters_snap(d, cutoffHz, diodeIs, numSeriesDiodes, forceNow) ==
    LET c == jlimit(MinCutoff, MaxCutoff(d.fs), cutoffHz)
    IN  [d EXCEPT !.cutoffSmooth = setCurrentAndTargetValue(d.cutoffSmooth, c),
                  !.nDiodesSmooth = setCurrentAndTargetValue(d.nDiodesSmooth,
                                                             numSeriesDiodes),
                  !.IsCurrent = diodeIs]

DC_setParameters(d, cutoffHz, diodeIs, numSeriesDiodes, forceNow) ==
    LET c == jlimit(MinCutoff, MaxCutoff(d.fs), cutoffHz)
    IN  IF forceNow
        THEN [d EXCEPT !.cutoffSmooth = setCurrentAndTargetValue(d.cutoffSmooth, c),
                       !.nDiodesSmooth = setCurrentAndTargetValue(d.nDiodesSmooth,
                                                                  numSeriesDiodes),
                       !.IsCurrent = diodeIs]
        ELSE [d EXCEPT !.cutoffSmooth = setTargetValue(d.cutoffSmooth, c),
                       !.nDiodesSmooth = setTargetValue(d.nDiodesSmooth,
                                                        numSeriesDiodes),
                       !.IsCurrent = diodeIs]

\* integer part of log2(n), n >= 1
RECURSIVE ILog2(_)
ILog2(n) == IF n <= 1 THEN 0 ELSE 1 + ILog2(n \div 2)

\* forward voltage at which the pair conducts 1 mA, in mV:
\* nDiodes * Vt * ln(1 mA / Is)
DiodeVf(Is, vt, nDiodes) ==
    IF Is <= 0 THEN Inf
    ELSE (((nDiodes * vt) \div 100000) * ILog2(1000000000 \div Is) * 693) \div 1000

\* DiodePairT::reflected: b = 2 v - a with the port voltage v limited by the pair
DiodeReflected(a, Is, vt, nDiodes) ==
    IF ~IsNum(a) THEN NaN
    ELSE LET vf == DiodeVf(Is, vt, nDiodes)
         IN  IF vf = Inf \/ vf < 0 THEN a
             ELSE 2 * jlimit(-vf, vf, a) - a

\* WDFParallelT::calcImpedance: port1Reflect = G1 / (G1 + G2) = R2 / (R1 + R2)
ParallelPort1Reflect(R1, R2) == SeriesPort1Reflect(R2, R1)

\* variant: the capacitor voltage is read after par.incident
DC_processSample_readAfterIncident(d, x) ==
    LET cs   == getNextValue(d.cutoffSmooth)
        ns   == getNextValue(d.nDiodesSmooth)
        pR   == isSmoothing(d.cutoffSmooth)
        pD   == isSmoothing(d.nDiodesSmooth)
        VsR  == IF pR THEN R_from_fc(cs.currentValue) ELSE d.VsR
        dIs  == IF pD THEN d.IsCurrent ELSE d.dIs
        dVt  == IF pD THEN Vt ELSE d.dVt
        dN   == IF pD THEN ns.currentValue ELSE d.dN
        p    == ParallelPort1Reflect(Div(DC_CK, d.c1fs), VsR)
        b1   == d.z
        b2   == x
        bDiff == Add(b2, Neg(b1))
        pb   == Add(b2, Neg(Scale(p, bDiff, CS)))
        db   == DiodeReflected(pb, dIs, dVt, dN)
        pb2  == Add(Add(pb, Neg(b2)), db)
        zn   == Add(pb2, bDiff)
        y    == Half(Add(zn, b1))
    IN  [f |-> [d EXCEPT !.cutoffSmooth = cs, !.nDiodesSmooth = ns,
                         !.VsR = VsR, !.VsV = x,
                         !.dIs = dIs, !.dVt = dVt, !.dN = dN,
                         !.z = zn, !.c1a = zn],
         y |-> y,
         pushed |-> [R |-> pR, D |-> pD]]

DC_processSample(d, x) ==
    LET cs   == getNextValue(d.cutoffSmooth)
        ns   == getNextValue(d.nDiodesSmooth)
        pR   == isSmoothing(d.cutoffSmooth)
        pD   == isSmoothing(d.nDiodesSmooth)
        VsR  == IF pR THEN R_from_fc(cs.currentValue) ELSE d.VsR
        dIs  == IF pD THEN d.IsCurrent ELSE d.dIs
        dVt  == IF pD THEN Vt ELSE d.dVt
        dN   == IF pD THEN ns.currentValue ELSE d.dN
        p    == ParallelPort1Reflect(Div(DC_CK, d.c1fs), VsR)
        b1   == d.z                                   \* C1.reflected()
        b2   == x                                     \* Vs.reflected()
        bDiff == Add(b2, Neg(b1))
        pb   == Add(b2, Neg(Scale(p, bDiff, CS)))     \* par.reflected()
        y    == Half(Add(d.c1a, b1))                  \* voltage(C1)
        db   == DiodeReflected(pb, dIs, dVt, dN)      \* diodes.reflected()
        pb2  == Add(Add(pb, Neg(b2)), db)
        zn   == Add(pb2, bDiff)                       \* C1.incident
    IN  [f |-> [d EXCEPT !.cutoffSmooth = cs, !.nDiodesSmooth = ns,
                         !.VsR = VsR, !.VsV = x,
                         !.dIs = dIs, !.dVt = dVt, !.dN = dN,
                         !.z = zn, !.c1a = zn],
         y |-> y,
         pushed |-> [R |-> pR, D |-> pD]]

----------------------------------------------------------------------------
(* utils::exportWAV: 16-bit mono PCM file; float samples in thousandths,
   the sample rate in tenths of a hertz *)

\* static_cast to an integer type: the fraction is dropped
TruncDiv(a, b) == IF a >= 0 THEN a \div b ELSE -((-a) \div b)

\* std::min(a, b) and std::max(a, b): b only if the comparison with a holds,
\* which it never does for a NaN
StdMin(a, b) == IF a # NaN /\ b # NaN /\ b < a THEN b ELSE a

StdMax(a, b) == IF a # NaN /\ b # NaN /\ a < b THEN b ELSE a

\* int16_t keeps 16 bits
ToInt16(v) == ((v + 32768) % 65536) - 32768

\* a conversion that scales the sample without clipping it first
PcmSample_unclipped(sample) ==
    IF sample = NaN \/ sample = Inf \/ sample = -Inf THEN 0
    ELSE ToInt16(TruncDiv(sample * PcmScale, FS))

\* clipped = std::max(-1.0f, std::min(1.0f, sample));
\* pcmSample = static_cast<int16_t>(clipped * 32767.0f)
PcmSample(sample) ==
    LET clipped == StdMax(-FS, StdMin(FS, sample))
    IN  ToInt16(TruncDiv(clipped * PcmScale, FS))

\* the fields written before the samples, each with its size in bytes
WavHeader(dataSize, sampleRate) ==
    LET fileSize      == 36 + dataSize
        sampleRateInt == TruncDiv(sampleRate, 10)
        byteRate      == sampleRateInt * NumChannels * BytesPerSample
        blockAlign    == NumChannels * BytesPerSample
    IN  << [field |-> "RIFF", bytes |-> 4, value |-> 0],
           [field |-> "fileSize", bytes |-> 4, value |-> fileSize],
           [field |-> "WAVE", bytes |-> 4, value |-> 0],
           [field |-> "fmt ", bytes |-> 4, value |-> 0],
           [field |-> "fmtSize", bytes |-> 4, value |-> FmtSize],
           [field |-> "audioFormat", bytes |-> 2, value |-> AudioFormat],
           [field |-> "numChannels", bytes |-> 2, value |-> NumChannels],
           [field |-> "sampleRate", bytes |-> 4, value |-> sampleRateInt],
           [field |-> "byteRate", bytes |-> 4, value |-> byteRate],
           [field |-> "blockAlign", bytes |-> 2, value |-> blockAlign],
           [field |-> "bitsPerSample", bytes |-> 2, value |-> BitsPerSample],
           [field |-> "data", bytes |-> 4, value |-> 0],
           [field |-> "dataSize", bytes |-> 4, value |-> dataSize] >>

NoFile == [written |-> FALSE]

\* returns whether the file was written, and the file
exportWAV(samples, sampleRate, opened) ==
    IF ~opened THEN [ok |-> FALSE, file |-> NoFile]
    ELSE [ok |-> TRUE,
          file |-> [written |-> TRUE,
                    header |-> WavHeader(Len(samples) * BytesPerSample, sampleRate),
                    pcm |-> [i \in 1 .. Len(samples) |-> PcmSample(samples[i])]]]

----------------------------------------------------------------------------
(* The two reference plugins.  A pointer to a pooled filter is the name of *)
(* the pool member; a buffer is a sequence of channels, each a sequence of *)
(* samples.                                                                *)

ParamCutoff0 == 10000       \* default of the cutoff parameter, 1000 Hz
ParamDiodes0 == 2000        \* default of numSeriesDiodes, 2.0
defaultIs == 2520           \* constexpr float defaultIs = 2.52e-9f, in pA

NoPlugin == [cls |-> "none"]
NullPtr == "nullptr"
PoolNames == {"lowPass1", "lowPass2", "highPass1", "highPass2"}
NoCalls == <<>>

\* std::unique_ptr<WDFilter>::get()
get(pool, name) == IF pool[name] = NoFilter THEN NullPtr ELSE name

\* processSample of a pooled filter or of the clipper
ProcessOne(f, x) ==
    IF f.cls = "WDFDiodeClipperJUCE" THEN DC_processSample(f, x)
    ELSE processSample(f, x)

\* the inner loop of processBlock: the samples of one channel, in order
RECURSIVE RunSamples(_, _)
KeepSample(y, rest) == [f |-> rest.f, ys |-> <<y>> \o rest.ys]
NextSamples(r, xs) == KeepSample(r.y, RunSamples(r.f, xs))
RunSamples(f, xs) ==
    IF xs = <<>> THEN [f |-> f, ys |-> <<>>]
    ELSE NextSamples(ProcessOne(f, Head(xs)), Tail(xs))

\* the outer loop of processBlock: the channels, in order, through one object
RECURSIVE RunChannels(_, _)
KeepChannel(ys, rest) == [f |-> rest.f, out |-> <<ys>> \o rest.out]
NextChannels(r, buffer) == KeepChannel(r.ys, RunChannels(r.f, buffer))
RunChannels(f, buffer) ==
    IF buffer = <<>> THEN [f |-> f, out |-> <<>>]
    ELSE NextChannels(RunSamples(f, Head(buffer)), Tail(buffer))

RECURSIVE NumSamples(_)
NumSamples(buffer) ==
    IF buffer = <<>> THEN 0 ELSE Len(Head(buffer)) + NumSamples(Tail(buffer))

SampleCalls(on, n) == [i \in 1 .. n |-> [op |-> "processSample", on |-> on]]

\* WDFilters: AudioPluginAudioProcessor after construction
FP_new ==
    [cls |-> "WDFilters",
     apvts |-> [cutoff |-> ParamCutoff0, filterType |-> 0, filterOrder |-> 0],
     pool |-> [name \in PoolNames |-> NoFilter],
     currentFilter |-> NullPtr,
     loaded |-> [cutoff |-> ParamCutoff0, filterType |-> 0, filterOrder |-> 0],
     hostRate |-> 0, pc |-> "idle", blocks |-> 0,
     buffer |-> <<>>, out |-> <<>>, calls |-> NoCalls,
     last |-> [op |-> "construct", thread |-> "host"]]

\* variant: a prepareToPlay that does not prepare the last pool member
FP_prepareToPlay_skipping(p, sampleRate) ==
    LET pool == [lowPass1  |-> prepare(create(LowPass, First).f, sampleRate),
                 lowPass2  |-> prepare(create(LowPass, Second).f, sampleRate),
                 highPass1 |-> prepare(create(HighPass, First).f, sampleRate),
                 highPass2 |-> create(HighPass, Second).f]
    IN  [p EXCEPT !.pool = pool,
                  !.currentFilter = get(pool, "lowPass1"),
                  !.hostRate = sampleRate]

FP_prepareToPlay(p, sampleRate) ==
    LET pool == [lowPass1  |-> prepare(create(LowPass, First).f, sampleRate),
                 lowPass2  |-> prepare(create(LowPass, Second).f, sampleRate),
                 highPass1 |-> prepare(create(HighPass, First).f, sampleRate),
                 highPass2 |-> prepare(create(HighPass, Second).f, sampleRate)]
    IN  [p EXCEPT !.pool = pool,
                  !.currentFilter = get(pool, "lowPass1"),
                  !.hostRate = sampleRate]

\* variant: type and order exchanged in the selection
FP_select_transposed(pool, filterType, filterOrder) ==
    IF filterType = 0 /\ filterOrder = 0 THEN get(pool, "lowPass1")
    ELSE IF filterType = 0 /\ filterOrder = 1 THEN get(pool, "highPass1")
    ELSE IF filterType = 1 /\ filterOrder = 0 THEN get(pool, "lowPass2")
    ELSE IF filterType = 1 /\ filterOrder = 1 THEN get(pool, "highPass2")
    ELSE NullPtr

\* the if-chain of processBlock
FP_select(pool, filterType, filterOrder) ==
    IF filterType = 0 /\ filterOrder = 0 THEN get(pool, "lowPass1")
    ELSE IF filterType = 0 /\ filterOrder = 1 THEN get(pool, "lowPass2")
    ELSE IF filterType = 1 /\ filterOrder = 0 THEN get(pool, "highPass1")
    ELSE IF filterType = 1 /\ filterOrder = 1 THEN get(pool, "highPass2")
    ELSE NullPtr

\* processBlock up to the sample loops: atomic loads, selection, setCutoff
FP_processBlock_begin(p, buffer) ==
    LET cutoff      == p.apvts.cutoff
        filterType  == p.apvts.filterType
        filterOrder == p.apvts.filterOrder
        cf          == FP_select(p.pool, filterType, filterOrder)
        q == [p EXCEPT !.currentFilter = cf, !.buffer = buffer, !.pc = "loop",
                       !.loaded = [cutoff |-> cutoff, filterType |-> filterType,
                                   filterOrder |-> filterOrder]]
    IN  IF cf # NullPtr
        THEN [q EXCEPT !.pool[cf] = setCutoff(@, cutoff),
                       !.calls = <<[op |-> "setCutoff", on |-> cf]>>]
        ELSE [q EXCEPT !.calls = NoCalls]

\* the state of the plugin at the end of a block whose loops gave r
FP_processed(p, cf, r) ==
    [p EXCEPT !.pool[cf] = r.f, !.out = r.out,
              !.pc = "idle", !.blocks = @ + 1,
              !.calls = @ \o SampleCalls(cf, NumSamples(p.buffer))]

\* the sample loops of processBlock
FP_processBlock_loop(p) ==
    IF p.currentFilter # NullPtr
    THEN FP_processed(p, p.currentFilter,
                      RunChannels(p.pool[p.currentFilter], p.buffer))
    ELSE [p EXCEPT !.out = p.buffer, !.pc = "idle", !.blocks = @ + 1]

\* DiodeClipper: AudioPluginAudioProcessor after construction
DP_new ==
    [cls |-> "DiodeClipper",
     apvts |-> [cutoff |-> ParamCutoff0, numSeriesDiodes |-> ParamDiodes0],
     diodeClipper |-> DC_new,
     hostRate |-> 0, pc |-> "idle", blocks |-> 0,
     buffer |-> <<>>, out |-> <<>>, calls |-> NoCalls,
     last |-> [op |-> "construct", thread |-> "host"]]

DP_prepareToPlay(p, sampleRate) ==
    [p EXCEPT !.diodeClipper = DC_prepare(@, sampleRate), !.hostRate = sampleRate]

\* processBlock up to the sample loops: updateParameters()
DP_processBlock_begin(p, buffer) ==
    [p EXCEPT !.diodeClipper = DC_setParameters(@, p.apvts.cutoff, defaultIs,
                                                p.apvts.numSeriesDiodes, FALSE),
              !.buffer = buffer, !.pc = "loop",
              !.calls = <<[op |-> "setParameters", on |-> "diodeClipper"]>>]

DP_processed(p, r) ==
    [p EXCEPT !.diodeClipper = r.f, !.out = r.out,
              !.pc = "idle", !.blocks = @ + 1,
              !.calls = @ \o SampleCalls("diodeClipper", NumSamples(p.buffer))]

DP_processBlock_loop(p) == DP_processed(p, RunChannels(p.diodeClipper, p.buffer))

prepareToPlay(p, sampleRate) ==
    IF p.cls = "WDFilters" THEN FP_prepareToPlay(p, sampleRate)
    ELSE DP_prepareToPlay(p, sampleRate)

processBlock_begin(p, buffer) ==
    IF p.cls = "WDFilters" THEN FP_processBlock_begin(p, buffer)
    ELSE DP_processBlock_begin(p, buffer)

processBlock_loop(p) ==
    IF p.cls = "WDFilters" THEN FP_processBlock_loop(p) ELSE DP_processBlock_loop(p)

\* the filter objects of a plugin
FilterState(p) == IF p.cls = "WDFilters" THEN p.pool ELSE p.diodeClipper

\* variant: the parameter listener retunes the filter from the message thread
parameterChanged_direct(p, name, value) ==
    LET q == [p EXCEPT !.apvts[name] = value]
    IN  IF p.cls = "WDFilters"
        THEN IF name = "cutoff" /\ p.currentFilter # NullPtr
             THEN [q EXCEPT !.pool[p.currentFilter] = setCutoff(@, value)]
             ELSE q
        ELSE [q EXCEPT !.diodeClipper =
                  DC_setParameters(@, q.apvts.cutoff, defaultIs,
                                   q.apvts.numSeriesDiodes, FALSE)]

\* a parameter moved by the host or the editor: an atomic store in the tree
parameterChanged(p, name, value) == [p EXCEPT !.apvts[name] = value]

----------------------------------------------------------------------------
(* Inputs explored *)

TypeValues == 0 .. 3            \* 3 is no enumerator of WDFilter::Type
OrderValues == 0 .. 2           \* 2 is no enumerator of WDFilter::Order
FilterRates == {0, 40, 8000, 48000}
ClipperRates == {200, 48000}
CutoffInputs == {-100, 10000, 300000}
BandwidthInputs == {0, 10, 20}
SampleInputs == {1000}
BandPassRates == {40, 48000}
BandPassBandwidths == {-10, 0, 20}
BandPassSamples == {-500}
ClipperSamples == {1000}
ClipperCutoffs == {100, 6000}
ClipperIs == {5000000}
ClipperDiodes == {2000, 9000}

RaceRates == {8000, 48000}
DCRates == {8000, 48000}
DCInputs == {-500000, 1000000}
PositiveRates == {40, 48000}
WavSamples == {-Inf, -1500, -500, 1, 1001, NaN}
WavRates == {80000, 441005, 480000}
WavInputs == UNION {[1 .. n -> WavSamples] : n \in 0 .. MaxWavSamples}
PluginClasses == {"WDFilters", "DiodeClipper"}
PluginRates == {8000, 48000}
ParamCutoffs == {200, 50000}
ParamChoices == {0, 1}
ParamDiodes == {2000, 8000}
FramesPerBlock == {2}
Channel0Samples == {-500}
Channel1Samples == {1000}
PluginBuffers ==
    UNION {{<<[i \in 1 .. n |-> c0], [i \in 1 .. n |-> c1]>> :
               c0 \in Channel0Samples, c1 \in Channel1Samples} : n \in FramesPerBlock}

\* the parameters of a plugin and the values explored for each
ParamValues(p) ==
    IF p.cls = "WDFilters"
    THEN [cutoff |-> ParamCutoffs, filterType |-> ParamChoices,
          filterOrder |-> ParamChoices]
    ELSE [cutoff |-> ParamCutoffs, numSeriesDiodes |-> ParamDiodes]

NoOp == [op |-> "none"]
NoPush == [R |-> FALSE, D |-> FALSE]
NoRamp == [c |-> -1, calls |-> 0, updates |-> 0]

Idle == [pc |-> "idle"]

\* the history of prepare calls after one more, with sample rate Fs
Prepared(history, Fs) ==
    IF history = "degenerate" \/ MaxCutoff(Fs) < MinCutoff THEN "degenerate"
    ELSE "valid"

IsFilter == filter.cls \in FilterClasses
IsClipper == filter.cls = "WDFDiodeClipperJUCE"

----------------------------------------------------------------------------
(* The calls a host makes *)

Init ==
    /\ filter = NoFilter
    /\ lastOp = NoOp
    /\ prevOp = NoOp
    /\ out = 0
    /\ pushed = NoPush
    /\ nSamples = 0
    /\ nParams = 0
    /\ prepares = "none"
    /\ tuned = FALSE
    /\ ramp = NoRamp
    /\ ctl = Idle
    /\ wav = NoFile
    /\ plugin = NoPlugin

\* auto f = WDFilter::create(type, order): the object under test is made once
Create(type, order) ==
    /\ filter = NoFilter
    /\ filter' = create(type, order).f
    /\ lastOp' = [op |-> "create", type |-> type, order |-> order,
                  asserted |-> create(type, order).asserted]
    /\ prevOp' = NoOp
    /\ out' = 0
    /\ pushed' = NoPush
    /\ nSamples' = 0
    /\ nParams' = 0
    /\ prepares' = "none"
    /\ tuned' = FALSE
    /\ ramp' = NoRamp
    /\ UNCHANGED <<ctl, wav, plugin>>

\* WDFDiodeClipperJUCE diodeClipper;
ConstructClipper ==
    /\ filter = NoFilter
    /\ filter' = DC_new
    /\ lastOp' = [op |-> "construct"]
    /\ prevOp' = NoOp
    /\ out' = 0
    /\ pushed' = NoPush
    /\ nSamples' = 0
    /\ nParams' = 0
    /\ prepares' = "none"
    /\ tuned' = FALSE
    /\ ramp' = NoRamp
    /\ UNCHANGED <<ctl, wav, plugin>>

\* the call before the last one is remembered in the two sequences the
\* properties below speak of: prepare directly followed by prepare, and a
\* forced setParameters directly followed by processSample (a setParameters
\* also records whether it directly followed a prepare)
Remember(op, next) ==
    IF op.op = "prepare" /\ next = "prepare" THEN op
    ELSE IF op.op = "setParameters" /\ next = "processSample" /\ op.forceNow THEN op
    ELSE NoOp

Prepare(Fs) ==
    /\ IsFilter
    /\ filter' = prepare(filter, Fs)
    /\ lastOp' = [op |-> "prepare", Fs |-> Fs]
    /\ prevOp' = Remember(lastOp, "prepare")
    /\ prepares' = Prepared(prepares, Fs)
    /\ tuned' = TRUE
    /\ UNCHANGED <<out, pushed, nSamples, nParams, ramp, ctl, wav, plugin>>

SetCutoff(fc) ==
    /\ IsFilter
    /\ filter' = setCutoff(filter, fc)
    /\ lastOp' = [op |-> "setCutoff", fc |-> fc]
    /\ prevOp' = Remember(lastOp, "setCutoff")
    /\ tuned' = TRUE
    /\ UNCHANGED <<out, pushed, nSamples, nParams, prepares, ramp, ctl, wav, plugin>>

SetBandwidth(octaves) ==
    /\ filter.cls \in BandPassClasses
    /\ filter' = setBandwidth(filter, octaves)
    /\ lastOp' = [op |-> "setBandwidth", octaves |-> octaves]
    /\ prevOp' = Remember(lastOp, "setBandwidth")
    /\ tuned' = TRUE
    /\ UNCHANGED <<out, pushed, nSamples, nParams, prepares, ramp, ctl, wav, plugin>>

\* applyAutoGain is a public member of both band-pass classes
SetAutoGain(on) ==
    /\ filter.cls \in BandPassClasses
    /\ filter.applyAutoGain # on
    /\ filter' = [filter EXCEPT !.applyAutoGain = on]
    /\ lastOp' = [op |-> "applyAutoGain", on |-> on]
    /\ prevOp' = Remember(lastOp, "applyAutoGain")
    /\ UNCHANGED <<out, pushed, nSamples, nParams, prepares, tuned, ramp, ctl, wav, plugin>>

ProcessSample(x) ==
    /\ IsFilter
    /\ nSamples < MaxSamples
    /\ LET r == processSample(filter, x)
       IN  filter' = r.f /\ out' = r.y
    /\ lastOp' = [op |-> "processSample", x |-> x]
    /\ prevOp' = Remember(lastOp, "processSample")
    /\ nSamples' = nSamples + 1
    /\ UNCHANGED <<pushed, nParams, prepares, tuned, ramp, ctl, wav, plugin>>

ClipperPrepare(Fs) ==
    /\ IsClipper
    /\ filter' = DC_prepare(filter, Fs)
    /\ lastOp' = [op |-> "prepare", Fs |-> Fs]
    /\ prevOp' = Remember(lastOp, "prepare")
    /\ prepares' = Prepared(prepares, Fs)
    /\ ramp' = NoRamp
    /\ UNCHANGED <<out, pushed, nSamples, nParams, tuned, ctl, wav, plugin>>

\* the ramp being followed after setParameters: a forced call ends it, a call
\* whose clamped cutoff differs from the smoother's target starts a new one,
\* and a call with the target unchanged leaves it running
RampAfter(d, cutoffHz, forceNow) ==
    LET c == jlimit(MinCutoff, MaxCutoff(d.fs), cutoffHz)
    IN  IF forceNow THEN NoRamp
        ELSE IF c # d.cutoffSmooth.target THEN [c |-> c, calls |-> 0, updates |-> 0]
        ELSE ramp

SetParameters(cutoffHz, diodeIs, numSeriesDiodes, forceNow) ==
    /\ IsClipper
    /\ nParams < MaxParamCalls
    /\ nParams' = nParams + 1
    /\ filter' = DC_setParameters(filter, cutoffHz, diodeIs, numSeriesDiodes, forceNow)
    /\ lastOp' = [op |-> "setParameters", cutoffHz |-> cutoffHz, diodeIs |-> diodeIs,
                  numSeriesDiodes |-> numSeriesDiodes, forceNow |-> forceNow,
                  afterPrepare |-> lastOp.op = "prepare"]
    /\ prevOp' = Remember(lastOp, "setParameters")
    /\ ramp' = RampAfter(filter, cutoffHz, forceNow)
    /\ UNCHANGED <<out, pushed, nSamples, prepares, tuned, ctl, wav, plugin>>

ClipperProcessSample(x) ==
    /\ IsClipper
    /\ nSamples < MaxClipperSamples
    /\ LET r == DC_processSample(filter, x)
       IN  /\ filter' = r.f
           /\ out' = r.y
           /\ pushed' = r.pushed
    /\ lastOp' = [op |-> "processSample", x |-> x]
    /\ prevOp' = Remember(lastOp, "processSample")
    /\ nSamples' = nSamples + 1
    /\ ramp' = IF ramp = NoRamp THEN NoRamp
               ELSE [ramp EXCEPT !.calls = @ + 1,
                                 !.updates = IF pushed'.R THEN @ + 1 ELSE @]
    /\ UNCHANGED <<nParams, prepares, tuned, ctl, wav, plugin>>

FilterNext ==
    \/ \E type \in TypeValues, order \in OrderValues : Create(type, order)
    \/ \E Fs \in FilterRates : Prepare(Fs)
    \/ \E fc \in CutoffInputs : SetCutoff(fc)
    \/ \E octaves \in BandwidthInputs : SetBandwidth(octaves)
    \/ \E x \in SampleInputs : ProcessSample(x)

ClipperNext ==
    \/ ConstructClipper
    \/ \E Fs \in ClipperRates : ClipperPrepare(Fs)
    \/ \E c \in ClipperCutoffs, i \in ClipperIs, n \in ClipperDiodes, force \in BOOLEAN :
          SetParameters(c, i, n, force)
    \/ \E x \in ClipperSamples : ClipperProcessSample(x)

RaceClasses == {"WDFRC2LowPassCascade", "WDFRCBandPass1st"}

\* control thread: setCutoff(fc) has run up to and including the update of
\* stage1; the audio thread may run processSample before the rest
SetCutoffStage1(fc) ==
    /\ filter.cls \in RaceClasses
    /\ ctl = Idle
    /\ filter' = IF filter.cls = "WDFRC2LowPassCascade"
                  THEN LP2_setCutoff_stage1(filter, fc)
                  ELSE BP1_setCutoff_stage1(filter, fc)
    /\ ctl' = [pc |-> "stage2",
               old |-> getCutoff(filter.stage2),
               lpCutoff |-> IF filter.cls = "WDFRC2LowPassCascade" THEN 0
                            ELSE BP1_lpCutoff(filter')]
    /\ lastOp' = [op |-> "setCutoff", fc |-> fc]
    /\ prevOp' = Remember(lastOp, "setCutoff")
    /\ tuned' = TRUE
    /\ UNCHANGED <<out, pushed, nSamples, nParams, prepares, ramp, wav, plugin>>

\* control thread: the rest of setCutoff, the update of stage2
SetCutoffStage2 ==
    /\ filter.cls \in RaceClasses
    /\ ctl.pc = "stage2"
    /\ filter' = IF filter.cls = "WDFRC2LowPassCascade"
                  THEN LP2_setCutoff_stage2(filter)
                  ELSE BP1_setCutoff_stage2(filter, ctl.lpCutoff)
    /\ ctl' = Idle
    /\ UNCHANGED <<lastOp, prevOp, out, pushed, nSamples, nParams, prepares, tuned,
                   ramp, wav, plugin>>

\* setCutoff on a control thread and processSample on the audio thread, with
\* nothing that orders the two
RaceNext ==
    \/ Create(LowPass, Second)
    \/ Create(BandPass, First)
    \/ \E Fs \in RaceRates : ctl = Idle /\ Prepare(Fs)
    \/ \E fc \in CutoffInputs : SetCutoffStage1(fc)
    \/ SetCutoffStage2
    \/ \E x \in SampleInputs : ProcessSample(x)

\* processSample(c) in a run of calls that all pass the same input c
Feed(c) ==
    /\ IsFilter
    /\ nSamples < MaxRun
    /\ nSamples > 0 => c = lastOp.x
    /\ LET r == processSample(filter, c)
       IN  filter' = r.f /\ out' = r.y
    /\ lastOp' = [op |-> "processSample", x |-> c]
    /\ prevOp' = Remember(lastOp, "processSample")
    /\ nSamples' = nSamples + 1
    /\ UNCHANGED <<pushed, nParams, prepares, tuned, ramp, ctl, wav, plugin>>

\* a low-pass filter is set up and then fed a constant input
DCNext ==
    \/ \E order \in {First, Second} : Create(LowPass, order)
    \/ \E Fs \in DCRates : nSamples = 0 /\ Prepare(Fs)
    \/ \E fc \in CutoffInputs : nSamples = 0 /\ SetCutoff(fc)
    \/ \E c \in DCInputs : Feed(c)

\* the calls made on a band-pass filter, with applyAutoGain switched as well
BandPassNext ==
    \/ \E order \in OrderValues : Create(BandPass, order)
    \/ \E Fs \in BandPassRates : Prepare(Fs)
    \/ \E fc \in CutoffInputs : SetCutoff(fc)
    \/ \E octaves \in BandPassBandwidths : SetBandwidth(octaves)
    \/ \E on \in BOOLEAN : SetAutoGain(on)
    \/ \E x \in BandPassSamples : ProcessSample(x)

\* all calls on all objects, with every prepare given a positive sample rate
PositiveNext ==
    \/ \E type \in TypeValues, order \in OrderValues : Create(type, order)
    \/ \E Fs \in PositiveRates : Prepare(Fs)
    \/ \E fc \in CutoffInputs : SetCutoff(fc)
    \/ \E octaves \in BandwidthInputs : SetBandwidth(octaves)
    \/ \E x \in SampleInputs : ProcessSample(x)
    \/ ClipperNext

\* utils::exportWAV(filePath, samples, sampleRate); the file may fail to open
ExportWAV(samples, sampleRate, opened) ==
    /\ lastOp' = [op |-> "exportWAV", samples |-> samples, sampleRate |-> sampleRate,
                  ok |-> exportWAV(samples, sampleRate, opened).ok]
    /\ wav' = exportWAV(samples, sampleRate, opened).file
    /\ UNCHANGED <<filter, prevOp, out, pushed, nSamples, nParams, prepares, tuned,
                   ramp, ctl, plugin>>

WavNext ==
    \E samples \in WavInputs, sampleRate \in WavRates, opened \in BOOLEAN :
        ExportWAV(samples, sampleRate, opened)

\* the host constructs the plugin
ConstructPlugin(cls) ==
    /\ plugin = NoPlugin
    /\ plugin' = IF cls = "WDFilters" THEN FP_new ELSE DP_new
    /\ UNCHANGED <<filter, lastOp, prevOp, out, pushed, nSamples, nParams, prepares,
                   tuned, ramp, ctl, wav>>

\* host: prepareToPlay(sampleRate, samplesPerBlock), never while processBlock
\* is running
PrepareToPlay(sampleRate) ==
    /\ plugin # NoPlugin
    /\ plugin.pc = "idle"
    /\ plugin' = [prepareToPlay(plugin, sampleRate) EXCEPT
                     !.last = [op |-> "prepareToPlay", thread |-> "host"]]
    /\ UNCHANGED <<filter, lastOp, prevOp, out, pushed, nSamples, nParams, prepares,
                   tuned, ramp, ctl, wav>>

\* message thread: a parameter is moved, at any time
ParameterChanged(name, value) ==
    /\ plugin # NoPlugin
    /\ plugin.apvts[name] # value
    /\ plugin' = [parameterChanged(plugin, name, value) EXCEPT
                     !.last = [op |-> "parameterChanged", thread |-> "message"]]
    /\ UNCHANGED <<filter, lastOp, prevOp, out, pushed, nSamples, nParams, prepares,
                   tuned, ramp, ctl, wav>>

\* audio thread: processBlock(buffer, midi) up to its sample loops
BlockBegin(buffer) ==
    /\ plugin # NoPlugin
    /\ plugin.pc = "idle"
    /\ plugin.blocks < MaxBlocks
    /\ plugin' = [processBlock_begin(plugin, buffer) EXCEPT
                     !.last = [op |-> "processBlock", thread |-> "audio"]]
    /\ UNCHANGED <<filter, lastOp, prevOp, out, pushed, nSamples, nParams, prepares,
                   tuned, ramp, ctl, wav>>

\* audio thread: the sample loops of processBlock
BlockRun ==
    /\ plugin # NoPlugin
    /\ plugin.pc = "loop"
    /\ plugin' = [processBlock_loop(plugin) EXCEPT
                     !.last = [op |-> "processBlock", thread |-> "audio"]]
    /\ UNCHANGED <<filter, lastOp, prevOp, out, pushed, nSamples, nParams, prepares,
                   tuned, ramp, ctl, wav>>

PluginNext ==
    \/ \E cls \in PluginClasses : ConstructPlugin(cls)
    \/ \E sampleRate \in PluginRates : PrepareToPlay(sampleRate)
    \/ /\ plugin # NoPlugin
       /\ \E name \in DOMAIN plugin.apvts :
             \E value \in ParamValues(plugin)[name] : ParameterChanged(name, value)
    \/ \E buffer \in PluginBuffers : BlockBegin(buffer)
    \/ BlockRun

Next == FilterNext \/ ClipperNext

\* the six WDFilter variants behind the factory
Spec == Init /\ [][FilterNext]_vars

\* the diode clipper
ClipperSpec == Init /\ [][ClipperNext]_vars

\* the steps of ClipperNext that process a sample
ClipperSampleProcessed ==
    IsClipper /\ nSamples < MaxClipperSamples /\ nSamples' = nSamples + 1

\* the diode clipper in a running host: processBlock keeps calling
\* processSample
ClipperLiveSpec ==
    Init /\ [][ClipperNext]_vars /\ WF_nSamples(ClipperSampleProcessed)

\* the two band-pass filters
BandPassSpec == Init /\ [][BandPassNext]_vars

\* a second-order cascade or band-pass filter used from two threads
RaceSpec == Init /\ [][RaceNext]_vars

\* the steps of DCNext that construct the filter
Constructed == filter = NoFilter /\ filter' \in {LP1_new, LP2_new}

\* the steps of DCNext that process a sample
SampleProcessed == IsFilter /\ nSamples < MaxRun /\ nSamples' = nSamples + 1

\* a low-pass filter fed a constant input; the host constructs the filter and
\* the audio callback keeps calling processSample
DCSpec ==
    /\ Init
    /\ [][DCNext]_vars
    /\ WF_filter(Constructed)
    /\ WF_nSamples(SampleProcessed)

\* all seven variants, prepared with positive sample rates only
PositiveSpec == Init /\ [][PositiveNext]_vars

\* the analysis tool writing WAV files
WavSpec == Init /\ [][WavNext]_vars

\* the two reference plugins in a host: host, message and audio thread
PluginSpec == Init /\ [][PluginNext]_vars

\* all seven variants
AllSpec == Init /\ [][Next]_vars

----------------------------------------------------------------------------
(* Properties of the six WDFilter variants and of the factory *)

\* the object was last prepared with 48000 Hz (before any prepare it holds 44100)
PreparedAt48k == IsFilter /\ prepares # "none" /\ SampleRateOf(filter) = 48000

\* C1: on every WDFilter variant prepared with Fs = 48000, right after
\* setCutoff(fc) getCutoff() returns fc clamped to [20, 21600] Hz: 20 for
\* fc = -10 and 21600 for fc = 30000.
C1_SetCutoffClamps ==
    (PreparedAt48k /\ lastOp.op = "setCutoff") =>
        /\ getCutoff(filter) =
              (IF lastOp.fc < 200 THEN 200
               ELSE IF lastOp.fc > 216000 THEN 216000 ELSE lastOp.fc)
        /\ lastOp.fc = -100 => getCutoff(filter) = 200
        /\ lastOp.fc = 300000 => getCutoff(filter) = 216000

C1_Witness ==
    /\ PreparedAt48k
    /\ lastOp.op = "setCutoff"
    /\ lastOp.fc = 300000
    /\ filter.cls = "WDFRCLowPass"
    /\ getCutoff(filter) = 216000

\* C2: whenever every prepare so far used an Fs with 20 <= 0.45 Fs, the stored
\* cutoff lies in [20, 0.45 Fs] for the Fs of the most recent prepare
\* (44100 before the first one).
C2_CutoffInRange ==
    (IsFilter /\ prepares # "degenerate") =>
        /\ MinCutoff <= getCutoff(filter)
        /\ getCutoff(filter) <= MaxCutoff(SampleRateOf(filter))

\* C3: create(type, order) with a type and an order of the enumerations
\* returns a filter whose getType() is type and whose getOrder() is order.
C3_CreateMatchesRequest ==
    (lastOp.op = "create" /\ lastOp.type \in {LowPass, HighPass, BandPass}
                          /\ lastOp.order \in {First, Second}) =>
        /\ IsFilter
        /\ getType(filter) = lastOp.type
        /\ getOrder(filter) = lastOp.order

\* the request names no filter class: the order or the type is no enumerator
Unsupported(op) ==
    op.order \notin {First, Second} \/ op.type \notin {LowPass, HighPass, BandPass}

\* C4 (as amended): for an unsupported (type, order) create reaches the
\* assertion and returns a freshly constructed first-order filter of the
\* requested type: WDFRCHighPass for HighPass, WDFRCBandPass1st for BandPass,
\* and WDFRCLowPass for LowPass or for a type that is no enumerator.
C4_FallbackOfRequestedType ==
    (lastOp.op = "create" /\ Unsupported(lastOp)) =>
        /\ lastOp.asserted
        /\ filter = (IF lastOp.type = HighPass THEN HP1_new
                     ELSE IF lastOp.type = BandPass THEN BP1_new
                     ELSE LP1_new)

C4_Witness ==
    /\ lastOp.op = "create"
    /\ lastOp.type = HighPass
    /\ lastOp.order = 2
    /\ lastOp.asserted
    /\ filter.cls = "WDFRCHighPass"

\* C4 as stated: for an unsupported (type, order) create reaches the assertion
\* and returns a WDFRCLowPass.
C4_FallbackIsLowPass ==
    (lastOp.op = "create" /\ Unsupported(lastOp)) =>
        /\ lastOp.asserted
        /\ filter.cls = "WDFRCLowPass"

\* the band edges the claim expects from the centre and the bandwidth, each
\* clamped to [20, 0.45 Fs]
EdgeClamp(b, v) ==
    IF v < MinCutoff THEN MinCutoff
    ELSE IF v > MaxCutoff(b.fs) THEN MaxCutoff(b.fs) ELSE v

LowerEdge(b) == EdgeClamp(b, (getCutoff(b) * FS) \div Pow2Half(getBandwidth(b)))

UpperEdge(b) == EdgeClamp(b, (getCutoff(b) * Pow2Half(getBandwidth(b))) \div FS)

StagesAtEdges ==
    /\ getCutoff(filter.stage1) = LowerEdge(filter)
    /\ getCutoff(filter.stage2) = UpperEdge(filter)

\* C5 (as amended): on a band-pass filter whose current sample rate has
\* 20 <= 0.45 Fs, in every state after the first prepare, setCutoff or
\* setBandwidth, stage1's cutoff is clamp(center / 2^(bw/2)) and stage2's is
\* clamp(center * 2^(bw/2)); for center 1000, bw 1 at 48000 Hz they are
\* 707.2 and 1414.
C5_StagesAtBandEdges ==
    (filter.cls \in BandPassClasses /\ tuned
        /\ MinCutoff <= MaxCutoff(filter.fs)) =>
        /\ StagesAtEdges
        /\ (getCutoff(filter) = 10000 /\ getBandwidth(filter) = 10
                /\ filter.fs = 48000) =>
              (getCutoff(filter.stage1) = 7072 /\ getCutoff(filter.stage2) = 14140)

C5_Witness ==
    /\ filter.cls = "WDFRCBandPass2nd"
    /\ tuned
    /\ lastOp.op = "setBandwidth"
    /\ filter.fs = 48000
    /\ getCutoff(filter) = 10000
    /\ getBandwidth(filter) = 10
    /\ getCutoff(filter.stage1) = 7072
    /\ getCutoff(filter.stage2) = 14140

\* C5 as stated, here only for positive sample rates: on a band-pass filter,
\* in every state after the first prepare, setCutoff or setBandwidth, the
\* stage cutoffs are the clamped band edges.
C5_StagesAtBandEdgesAnyRate ==
    (filter.cls \in BandPassClasses /\ tuned /\ filter.fs > 0) => StagesAtEdges

\* C8: prepare(48000) directly after prepare(48000) changes nothing of the
\* object, on the six WDFilter variants and on the diode clipper, whatever
\* the state before the first of the two calls.
C8_PrepareTwice ==
    [][(lastOp.op = "prepare" /\ lastOp.Fs = 48000
          /\ lastOp'.op = "prepare" /\ lastOp'.Fs = 48000)
        => filter' = filter]_vars

C8_Witness ==
    /\ IsClipper
    /\ lastOp.op = "prepare" /\ lastOp.Fs = 48000
    /\ prevOp.op = "prepare" /\ prevOp.Fs = 48000
    /\ nSamples > 0
    /\ nParams > 0

\* C9: no object ever stores a sample rate that is zero or negative.
C9_SampleRatePositive ==
    /\ IsFilter => SampleRateOf(filter) > 0
    /\ IsClipper => filter.fs > 0

----------------------------------------------------------------------------
(* Properties of the diode clipper *)

\* the cutoff setParameters clamps to for the clipper d
ClipperClamp(d, cutoffHz) ==
    IF cutoffHz < MinCutoff THEN MinCutoff
    ELSE IF cutoffHz > MaxCutoff(d.fs) THEN MaxCutoff(d.fs) ELSE cutoffHz

\* C6: the processSample that directly follows a forced setParameters on a
\* prepared clipper runs with the source resistance R_from_fc(clamp(cutoffHz))
\* and the diode pair set to (Is, Vt, N) of that call.
C6_ForcedParametersApplied ==
    (IsClipper /\ prepares # "none" /\ lastOp.op = "processSample"
        /\ prevOp.op = "setParameters") =>
        /\ filter.VsR = R_from_fc(ClipperClamp(filter, prevOp.cutoffHz))
        /\ filter.dIs = prevOp.diodeIs
        /\ filter.dVt = Vt
        /\ filter.dN = prevOp.numSeriesDiodes

\* floor(0.01 Fs), the length of a ramp in processSample calls
RampLength(d) == (RampPct * d.fs) \div 100

\* C7: after an unforced setParameters on a prepared clipper that gives the
\* cutoff a new target, and with the target left alone afterwards (the same
\* values may be set again), each of the next floor(0.01 Fs) processSample
\* calls updates the resistance, the last of them to R_from_fc(clamp(cutoffHz)),
\* the ramp is then over and no later processSample updates the resistance.
C7_RampLength ==
    (IsClipper /\ prepares # "none" /\ ramp # NoRamp) =>
        /\ ramp.calls <= RampLength(filter) => ramp.updates = ramp.calls
        /\ ramp.calls < RampLength(filter) => isSmoothing(filter.cutoffSmooth)
        /\ ramp.calls >= RampLength(filter) =>
              /\ ramp.updates = RampLength(filter)
              /\ ~isSmoothing(filter.cutoffSmooth)
              /\ RampLength(filter) >= 1 => filter.VsR = R_from_fc(ramp.c)

C7_Witness ==
    /\ IsClipper
    /\ prepares # "none"
    /\ ramp # NoRamp
    /\ RampLength(filter) = 2
    /\ ramp.calls = 3
    /\ ramp.updates = 2
    /\ nParams = 2
    /\ lastOp.op = "processSample"
    /\ ~pushed.R
    /\ filter.VsR = R_from_fc(ramp.c)

\* C10: whatever processSample passes to diodes.setDiodeParameters lies in the
\* valid domain: Is within 1e-12 .. 1e-6 A and the diode count within 1 .. 8.
C10_DiodeInputsInDomain ==
    (IsClipper /\ lastOp.op = "processSample" /\ pushed.D) =>
        /\ filter.dIs >= 1 /\ filter.dIs <= 1000000
        /\ filter.dN >= 1000 /\ filter.dN <= 8000

----------------------------------------------------------------------------
(* Properties of the stages of the cascades and of the component values *)

\* C11 as stated: right after setCutoff(fc) on a prepared
\* WDFRC2HighPassCascade both stages carry the cutoff getCutoff() / 1.553.
C11_StagesCarryCorrectedCutoff ==
    (filter.cls = "WDFRC2HighPassCascade" /\ prepares = "valid"
        /\ lastOp.op = "setCutoff") =>
        /\ getCutoff(filter.stage1) = (getCutoff(filter) * FS) \div HP2_k
        /\ getCutoff(filter.stage2) = (getCutoff(filter) * FS) \div HP2_k

\* C12: in every state of WDFRC2LowPassCascade and of WDFRC2HighPassCascade
\* the two stages have the same cutoff and the same resistor value.
C12_StagesAgree ==
    filter.cls \in {"WDFRC2LowPassCascade", "WDFRC2HighPassCascade"} =>
        /\ getCutoff(filter.stage1) = getCutoff(filter.stage2)
        /\ filter.stage1.r1 = filter.stage2.r1

C12_Witness ==
    /\ filter.cls = "WDFRC2HighPassCascade"
    /\ prepares = "valid"
    /\ lastOp.op = "setCutoff"
    /\ nSamples > 0
    /\ filter.stage1.z # filter.stage2.z
    /\ getCutoff(filter.stage1) # getCutoff(filter)
    /\ getCutoff(filter.stage1) = getCutoff(filter.stage2)
    /\ filter.stage1.r1 = filter.stage2.r1

\* the capacitance of the capacitor element of a first-order filter
ElementC(s) == IF s.cls = "WDFRCLowPass" THEN LP_C ELSE HP_C

----------------------------------------------------------------------------
(* Properties of the band-pass filters *)

\* the factor processSample scales its input by, in thousandths
AutoGain(b) ==
    IF ~b.applyAutoGain THEN FS
    ELSE IF b.cls = "WDFRCBandPass1st" THEN 1500 ELSE 1450

\* C14: every processSample(x) of a band-pass filter returns
\* stage2.processSample(stage1.processSample(g x)) and leaves each stage in the
\* state one step brings it to, the high-pass stage stepped first, with
\* g = 1.5 (WDFRCBandPass1st) or 1.45 (WDFRCBandPass2nd) when applyAutoGain is
\* true and g = 1 when it is false.
C14_StagesInSeries ==
    [][(filter.cls \in BandPassClasses /\ lastOp'.op = "processSample") =>
        LET gx == (AutoGain(filter) * lastOp'.x) \div FS
            r1 == processSample(filter.stage1, gx)
            r2 == processSample(filter.stage2, r1.y)
        IN  /\ out' = r2.y
            /\ filter' = [filter EXCEPT !.stage1 = r1.f, !.stage2 = r2.f]
            /\ getType(filter.stage1) = HighPass
            /\ getType(filter.stage2) = LowPass]_vars

C14_Witness ==
    /\ filter.cls = "WDFRCBandPass2nd"
    /\ ~filter.applyAutoGain
    /\ prepares = "valid"
    /\ lastOp.op = "processSample"
    /\ lastOp.x = -500
    /\ out < 0
    /\ filter.stage1.stage1.vin = -500

\* C15: in every state of a band-pass filter getBandwidth() >= 0.1, and right
\* after setBandwidth(o) getBandwidth() is max(0.1, o), also for o = 0 and
\* for negative o.
C15_BandwidthFloor ==
    filter.cls \in BandPassClasses =>
        /\ getBandwidth(filter) >= 1
        /\ lastOp.op = "setBandwidth" =>
              getBandwidth(filter) = IF lastOp.octaves < 1 THEN 1 ELSE lastOp.octaves

C15_Witness ==
    /\ filter.cls = "WDFRCBandPass2nd"
    /\ lastOp.op = "setBandwidth"
    /\ lastOp.octaves = -10
    /\ getBandwidth(filter) = 1

----------------------------------------------------------------------------
(* Setters and processSample on different threads *)

\* the relation between the stages that every state reached by whole calls
\* of setCutoff and processSample has (C12 for the cascade, C5 for the
\* band-pass filter)
Sequential(f) ==
    IF f.cls = "WDFRC2LowPassCascade"
    THEN getCutoff(f.stage1) = getCutoff(f.stage2)
    ELSE /\ getCutoff(f.stage1) = LowerEdge(f)
         /\ getCutoff(f.stage2) = UpperEdge(f)

\* C16: with setCutoff on a control thread and processSample on the audio
\* thread, the stages are out of their sequential relation only while a
\* setCutoff stands between its two stage updates, and there stage1 holds
\* the new cutoff while stage2 still holds the one from before the call;
\* processSample can run in that state (the witness).
C16_SetterNotAtomic ==
    (filter.cls \in RaceClasses /\ tuned) =>
        /\ ctl = Idle => Sequential(filter)
        /\ ctl # Idle =>
              /\ getCutoff(filter.stage2) = ctl.old
              /\ getCutoff(filter.stage1) =
                    IF filter.cls = "WDFRC2LowPassCascade" THEN getCutoff(filter)
                    ELSE LowerEdge(filter)

C16_Witness ==
    /\ filter.cls = "WDFRC2LowPassCascade"
    /\ ctl # Idle
    /\ lastOp.op = "processSample"
    /\ ~Sequential(filter)
    /\ getCutoff(filter.stage1) = getCutoff(filter)
    /\ getCutoff(filter.stage2) # getCutoff(filter)
    /\ out # 0

----------------------------------------------------------------------------
(* Response of the low-pass filters to a constant input *)

\* a thousandth of the larger input level
DCTolerance == 1000000 \div FS

\* the output of the last processSample is within the tolerance of its input
Settled ==
    /\ lastOp.op = "processSample"
    /\ Abs(out - lastOp.x) <= DCTolerance

----------------------------------------------------------------------------
(* What prepare leaves of the calls before it *)

\* what the first processSample(x) returns on a newly constructed clipper
\* after prepare(Fs) and the forced setParameters call p
FirstOutputOfNew(Fs, p, x) ==
    DC_processSample(
        DC_setParameters(DC_prepare(DC_new, Fs), p.cutoffHz, p.diodeIs,
                         p.numSeriesDiodes, TRUE), x).y

\* C18 as stated, for the diode clipper and the first sample: after
\* prepare(Fs), setParameters(c, Is, N, true) and processSample(x), called
\* directly one after the other, the output is the one a newly constructed
\* clipper returns for the same three calls, whatever was called before.
C18_PrepareForgetsHistory ==
    (IsClipper /\ lastOp.op = "processSample" /\ prevOp.op = "setParameters"
        /\ prevOp.afterPrepare) =>
        out = FirstOutputOfNew(filter.fs, prevOp, lastOp.x)

----------------------------------------------------------------------------
(* Resistances *)

\* the first-order stages a WDFilter is made of
Stages(f) ==
    IF f.cls \in {"WDFRCLowPass", "WDFRCHighPass"} THEN {f}
    ELSE IF f.cls \in {"WDFRC2LowPassCascade", "WDFRC2HighPassCascade",
                       "WDFRCBandPass1st"}
    THEN {f.stage1, f.stage2}
    ELSE {f.stage1.stage1, f.stage1.stage2, f.stage2.stage1, f.stage2.stage2}

----------------------------------------------------------------------------
(* The WAV files written by exportWAV *)

RECURSIVE SumBytes(_)
SumBytes(fields) ==
    IF fields = << >> THEN 0 ELSE Head(fields).bytes + SumBytes(Tail(fields))

\* the value of the header field with the given name
Field(file, name) ==
    LET i == CHOOSE j \in 1 .. Len(file.header) : file.header[j].field = name
    IN  file.header[i].value

\* the sample clipped to [-1, 1] and scaled by 32767, the fraction dropped
ClippedAndScaled(sample) ==
    IF sample = NaN \/ sample >= 1000 THEN 32767
    ELSE IF sample <= -1000 THEN -32767
    ELSE IF sample >= 0 THEN (sample * 32767) \div 1000
    ELSE -(((-sample) * 32767) \div 1000)

\* C19: a file written by exportWAV for n samples has a 44-byte header of
\* 16-bit mono PCM with data size 2 n, RIFF size 36 + 2 n, byteRate twice the
\* sample rate field and blockAlign 2, and every PCM value is the sample
\* clipped to [-1, 1] and scaled by 32767, so within [-32767, 32767].
C19_WavFile ==
    (lastOp.op = "exportWAV" /\ lastOp.ok) =>
        LET n == Len(lastOp.samples)
        IN  /\ wav.written
            /\ Len(wav.header) = 13
            /\ SumBytes(wav.header) = 44
            /\ Field(wav, "dataSize") = 2 * n
            /\ Field(wav, "fileSize") = 36 + 2 * n
            /\ Field(wav, "sampleRate") = lastOp.sampleRate \div 10
            /\ Field(wav, "byteRate") = 2 * Field(wav, "sampleRate")
            /\ Field(wav, "blockAlign") = 2
            /\ Field(wav, "bitsPerSample") = 16
            /\ Field(wav, "numChannels") = 1
            /\ Field(wav, "audioFormat") = 1
            /\ Len(wav.pcm) = n
            /\ \A i \in 1 .. n :
                  /\ wav.pcm[i] >= -32767 /\ wav.pcm[i] <= 32767
                  /\ wav.pcm[i] = ClippedAndScaled(lastOp.samples[i])

C19_Witness ==
    /\ lastOp.op = "exportWAV" /\ lastOp.ok
    /\ lastOp.samples = <<1001, -Inf>>
    /\ lastOp.sampleRate = 441005
    /\ wav.written
    /\ wav.pcm = <<32767, -32767>>
    /\ Field(wav, "byteRate") = 88200
    /\ Field(wav, "fileSize") = 40

----------------------------------------------------------------------------
\* a step of the clipper's processSample
ClipperSampleStep == IsClipper /\ nSamples' = nSamples + 1

\* the wave C1 receives when the source holds x and the components have the
\* values in d: par.reflected(), diodes.incident, diodes.reflected(),
\* par.incident
IncidentOnC1(d, z, x) ==
    LET p     == ParallelPort1Reflect(Div(DC_CK, d.c1fs), d.VsR)
        bDiff == Add(x, Neg(z))
        pb    == Add(x, Neg(Scale(p, bDiff, CS)))
        db    == DiodeReflected(pb, d.dIs, d.dVt, d.dN)
    IN  Add(Add(Add(pb, Neg(x)), db), bDiff)

\* C21: every processSample(x) of the diode clipper (1) pushes the next
\* smoothed resistance and diode parameters exactly when the respective ramp
\* is in progress, (2) sets the source voltage to x, (3, 5) scatters with the
\* values pushed in step 1 and with x at the source, and (4) returns the
\* capacitor voltage made of the incident wave of the sample before and the
\* capacitor's state, that is, read before the capacitor receives this
\* sample's incident wave.
C21_StepOrder ==
    [][ClipperSampleStep =>
        LET x == lastOp'.x
        IN  /\ pushed'.R = isSmoothing(filter.cutoffSmooth)
            /\ pushed'.D = isSmoothing(filter.nDiodesSmooth)
            /\ filter'.cutoffSmooth = getNextValue(filter.cutoffSmooth)
            /\ filter'.nDiodesSmooth = getNextValue(filter.nDiodesSmooth)
            /\ filter'.VsR = IF pushed'.R
                             THEN R_from_fc(filter'.cutoffSmooth.currentValue)
                             ELSE filter.VsR
            /\ filter'.dN = IF pushed'.D THEN filter'.nDiodesSmooth.currentValue
                            ELSE filter.dN
            /\ filter'.dIs = IF pushed'.D THEN filter.IsCurrent ELSE filter.dIs
            /\ filter'.VsV = x
            /\ out' = Half(Add(filter.c1a, filter.z))
            /\ filter'.c1a = IncidentOnC1(filter', filter.z, x)
            /\ filter'.z = filter'.c1a]_vars

\* a sample processed during a cutoff ramp whose output differs from the
\* capacitor voltage after the call
C21_Witness ==
    /\ IsClipper
    /\ lastOp.op = "processSample"
    /\ pushed.R
    /\ nSamples >= 2
    /\ out # Half(Add(filter.c1a, filter.z))
    /\ out # 0

----------------------------------------------------------------------------
\* setParameters has just stored a saturation current the diode pair does
\* not have, no diode-count ramp is in progress, and samples follow
NewIsPending ==
    /\ IsClipper
    /\ lastOp.op = "setParameters"
    /\ lastOp.diodeIs # filter.dIs
    /\ ~isSmoothing(filter.nDiodesSmooth)
    /\ nSamples < MaxClipperSamples

----------------------------------------------------------------------------
NoRampInProgress ==
    /\ IsClipper
    /\ ~isSmoothing(filter.cutoffSmooth)
    /\ ~isSmoothing(filter.nDiodesSmooth)

\* C25: in the diode clipper, right after prepare and right after
\* setParameters with forceNow = true (when no ramp is in progress), the
\* source resistance is R_from_fc of the smoothed cutoff and the diode pair's
\* diode count is the smoothed diode count.
C25_ComponentsFollowSmoothers ==
    (/\ NoRampInProgress
     /\ \/ lastOp.op = "prepare"
        \/ lastOp.op = "setParameters" /\ lastOp.forceNow) =>
        /\ filter.VsR = R_from_fc(filter.cutoffSmooth.currentValue)
        /\ filter.dN = filter.nDiodesSmooth.currentValue

----------------------------------------------------------------------------
\* what setCutoff tunes: the stored cutoff and, per stage, its cutoff and its
\* resistance
RECURSIVE Tuning(_)
Tuning(f) ==
    IF f.cls \in {"WDFRCLowPass", "WDFRCHighPass"} THEN <<f.cutoff, f.r1>>
    ELSE <<f.cutoff, Tuning(f.stage1), Tuning(f.stage2)>>

CutoffInRange(f) ==
    /\ MinCutoff <= getCutoff(f)
    /\ getCutoff(f) <= MaxCutoff(SampleRateOf(f))

\* C27: on every WDFilter variant prepared at a sample rate with
\* 20 <= 0.45 Fs and holding a cutoff inside [20, 0.45 Fs],
\* setCutoff(getCutoff()) leaves the stored cutoff, every stage's cutoff and
\* every resistor value as they were.
C27_SetCutoffOfGetCutoff ==
    [][(/\ IsFilter
        /\ prepares = "valid"
        /\ CutoffInRange(filter)
        /\ lastOp'.op = "setCutoff"
        /\ lastOp'.fc = getCutoff(filter)) => Tuning(filter') = Tuning(filter)]_vars

----------------------------------------------------------------------------
\* the configuration of a filter: everything but the wave variables and the
\* capacitor states
RECURSIVE Config(_)
Config(f) ==
    IF f.cls \in {"WDFRCLowPass", "WDFRCHighPass"} THEN [f EXCEPT !.z = 0, !.vin = 0]
    ELSE [f EXCEPT !.stage1 = Config(f.stage1), !.stage2 = Config(f.stage2)]

\* a step of a filter's processSample
SampleStep == IsFilter /\ nSamples' = nSamples + 1

\* C28: processSample on any of the six WDFilter variants leaves the stored
\* sample rate, cutoff, bandwidth, applyAutoGain flag and every resistor
\* value (of the filter and of each stage) as they were; only the wave
\* variables and the capacitor states may change.
C28_ProcessSampleKeepsConfig ==
    [][SampleStep => Config(filter') = Config(filter)]_vars

\* a band-pass filter away from its defaults whose capacitor states a
\* processSample has just changed
C28_Witness ==
    /\ filter.cls = "WDFRCBandPass2nd"
    /\ lastOp.op = "processSample"
    /\ prepares = "valid"
    /\ getCutoff(filter) # DefaultCutoff
    /\ getBandwidth(filter) # DefaultBandwidth
    /\ filter # Config(filter)
    /\ out # 0

----------------------------------------------------------------------------
\* a filter without what setCutoff tunes: cutoffs and resistances removed,
\* sample rates, bandwidth, flag, wave variables and capacitor states kept
RECURSIVE Untuned(_)
Untuned(f) ==
    IF f.cls \in {"WDFRCLowPass", "WDFRCHighPass"} THEN [f EXCEPT !.cutoff = 0, !.r1 = 0]
    ELSE [f EXCEPT !.cutoff = 0, !.stage1 = Untuned(f.stage1),
                   !.stage2 = Untuned(f.stage2)]

\* a band-pass filter without what setBandwidth tunes: the centre cutoff kept
WithoutBand(f) ==
    [f EXCEPT !.bandwidthInOctaves = 0, !.stage1 = Untuned(f.stage1),
              !.stage2 = Untuned(f.stage2)]

\* C29: setCutoff leaves the sample rate, the bandwidth and every capacitor's
\* stored state unchanged, and setBandwidth leaves the sample rate, the
\* centre cutoff returned by getCutoff() and every capacitor's stored state
\* unchanged (at every level of the cascade).
C29_SettersKeepTheRest ==
    [][/\ (IsFilter /\ lastOp'.op = "setCutoff") =>
              Untuned(filter') = Untuned(filter)
       /\ (IsFilter /\ lastOp'.op = "setBandwidth") =>
              /\ WithoutBand(filter') = WithoutBand(filter)
              /\ getCutoff(filter') = getCutoff(filter)]_vars

\* setCutoff has just retuned a band-pass filter that holds a bandwidth of
\* its own and a charged capacitor
C29_Witness ==
    /\ filter.cls = "WDFRCBandPass1st"
    /\ lastOp.op = "setCutoff"
    /\ lastOp.fc = 300000
    /\ prepares = "valid"
    /\ getCutoff(filter) # DefaultCutoff
    /\ getBandwidth(filter) # DefaultBandwidth
    /\ filter.stage1.z # 0
    /\ filter.stage2.z # 0

----------------------------------------------------------------------------
(* Properties of the reference plugins *)

IsFilterPlugin == plugin.cls = "WDFilters"
IsClipperPlugin == plugin.cls = "DiodeClipper"

\* the pooled filter of the given type and order, if there is one
Matching(pool, filterType, filterOrder) ==
    LET found == {name \in PoolNames :
                     /\ pool[name] # NoFilter
                     /\ getType(pool[name]) = filterType
                     /\ getOrder(pool[name]) = filterOrder}
    IN  IF found = {} THEN NullPtr ELSE CHOOSE name \in found : TRUE

\* the steps of the audio thread
BlockBeginStep == plugin # NoPlugin /\ plugin.pc = "idle" /\ plugin'.pc = "loop"
BlockRunStep == plugin # NoPlugin /\ plugin.pc = "loop" /\ plugin'.pc = "idle"

\* C23: in the WDFilters plugin, processBlock selects the pooled filter whose
\* type and order are the filterType and filterOrder parameters read at the
\* start of the block (none for values without a pooled filter, or when the
\* pool is empty), calls setCutoff with the cutoff read at the start on it
\* before any sample is processed, processes every sample of the block with
\* that filter whatever the parameters become meanwhile, and copies the
\* input to the output when no filter was selected.
C23_BlockUsesMatchingFilter ==
    [][/\ (IsFilterPlugin /\ BlockBeginStep) =>
            LET cf == plugin'.currentFilter
            IN  /\ plugin'.loaded = plugin.apvts
                /\ cf = Matching(plugin.pool, plugin.apvts.filterType,
                                 plugin.apvts.filterOrder)
                /\ \A t \in 0 .. 2, o \in 0 .. 2 :
                      FP_select(plugin.pool, t, o) = Matching(plugin.pool, t, o)
                /\ cf = NullPtr => plugin'.calls = NoCalls /\ plugin'.pool = plugin.pool
                /\ cf # NullPtr =>
                      /\ plugin'.calls = <<[op |-> "setCutoff", on |-> cf]>>
                      /\ plugin'.pool =
                            [plugin.pool EXCEPT
                                ![cf] = setCutoff(@, plugin.apvts.cutoff)]
       /\ (IsFilterPlugin /\ BlockRunStep) =>
            LET cf == plugin.currentFilter
            IN  /\ plugin'.currentFilter = cf
                /\ cf = Matching(plugin.pool, plugin.loaded.filterType,
                                 plugin.loaded.filterOrder)
                /\ cf = NullPtr =>
                      /\ plugin'.out = plugin.buffer
                      /\ plugin'.calls = NoCalls
                      /\ plugin'.pool = plugin.pool
                /\ cf # NullPtr =>
                      /\ Head(plugin'.calls) = [op |-> "setCutoff", on |-> cf]
                      /\ Len(plugin'.calls) = 1 + NumSamples(plugin.buffer)
                      /\ \A i \in 2 .. Len(plugin'.calls) :
                            plugin'.calls[i] = [op |-> "processSample", on |-> cf]
                      /\ plugin'.out = RunChannels(plugin.pool[cf], plugin.buffer).out
                      /\ plugin'.pool =
                            [plugin.pool EXCEPT
                                ![cf] = RunChannels(@, plugin.buffer).f]]_vars

\* a block processed by the second-order high-pass while the parameters were
\* moved to another filter and cutoff during the block
C23_Witness ==
    /\ IsFilterPlugin
    /\ plugin.pc = "idle"
    /\ plugin.last.op = "processBlock"
    /\ plugin.currentFilter = "highPass2"
    /\ plugin.loaded = [cutoff |-> 200, filterType |-> 1, filterOrder |-> 1]
    /\ plugin.apvts # plugin.loaded
    /\ getCutoff(plugin.pool["highPass2"]) = 200
    /\ plugin.out # plugin.buffer

----------------------------------------------------------------------------
\* C24: in the WDFilters plugin, for any ordering of prepareToPlay and
\* processBlock calls, every setCutoff and processSample call of a block is
\* made on a pooled filter that exists and was prepared at the host's sample
\* rate; before the first prepareToPlay the pool is empty, currentFilter is
\* null, no call is made and a processed block is passed through unchanged.
C24_NeverNullNeverUnprepared ==
    IsFilterPlugin =>
        /\ \A i \in 1 .. Len(plugin.calls) :
              LET on == plugin.calls[i].on
              IN  /\ on \in PoolNames
                  /\ plugin.pool[on] # NoFilter
                  /\ SampleRateOf(plugin.pool[on]) = plugin.hostRate
                  /\ \A st \in Stages(plugin.pool[on]) :
                        st.sampleRate = plugin.hostRate /\ st.c1fs = plugin.hostRate
        /\ plugin.hostRate = 0 =>
              /\ \A name \in PoolNames : plugin.pool[name] = NoFilter
              /\ plugin.currentFilter = NullPtr
              /\ plugin.calls = NoCalls
              /\ (plugin.blocks > 0 /\ plugin.pc = "idle") => plugin.out = plugin.buffer

\* two blocks processed before the first prepareToPlay, with the parameters
\* asking for the second-order high-pass
C24_Witness ==
    /\ IsFilterPlugin
    /\ plugin.hostRate = 0
    /\ plugin.blocks = 2
    /\ plugin.pc = "idle"
    /\ plugin.loaded.filterType = 1 /\ plugin.loaded.filterOrder = 1
    /\ plugin.out = plugin.buffer
    /\ plugin.out # <<>>

----------------------------------------------------------------------------
\* the block being processed with channel 0 replaced by silence
SilencedChannel0(p) ==
    [p EXCEPT !.buffer[1] = [i \in 1 .. Len(p.buffer[1]) |-> 0]]

Frames(p) == Len(p.buffer[1])

\* C26: in both plugins' processBlock, after prepareToPlay, the output of
\* channel 1 is the same whatever the samples of channel 0 are (here: as
\* given and silenced), and the clipper's cutoff ramp advances by one step
\* per sample frame.
C26_ChannelsIndependent ==
    [][(BlockRunStep /\ plugin.hostRate # 0) =>
          /\ plugin'.out[2] = processBlock_loop(SilencedChannel0(plugin)).out[2]
          /\ IsClipperPlugin =>
                LET before == plugin.diodeClipper.cutoffSmooth.countdown
                    after  == plugin'.diodeClipper.cutoffSmooth.countdown
                IN  after = IF before > Frames(plugin) THEN before - Frames(plugin)
                            ELSE 0]_vars

----------------------------------------------------------------------------
\* C30: in both plugins, every step that changes a filter object is a step of
\* processBlock on the audio thread or, while no processBlock is running, of
\* prepareToPlay; a step of the message thread changes nothing but the
\* parameter tree, and processBlock takes its values from the tree as it is
\* when the block begins.  So while a block is being processed no other
\* thread touches the filter objects.
C30_FiltersOwnedByAudioThread ==
    [][(plugin # NoPlugin) =>
          /\ FilterState(plugin') # FilterState(plugin) =>
                \/ plugin'.last.thread = "audio"
                \/ plugin'.last.thread = "host" /\ plugin.pc = "idle"
          /\ plugin'.last.thread = "message" =>
                [plugin' EXCEPT !.apvts = plugin.apvts, !.last = plugin.last] = plugin
          /\ (plugin.pc = "loop" /\ plugin'.pc = "loop") =>
                FilterState(plugin') = FilterState(plugin)
          /\ (IsFilterPlugin /\ BlockBeginStep) => plugin'.loaded = plugin.apvts
          /\ (IsClipperPlugin /\ BlockBeginStep) =>
                plugin'.diodeClipper =
                    DC_setParameters(plugin.diodeClipper, plugin.apvts.cutoff,
                                     defaultIs, plugin.apvts.numSeriesDiodes,
                                     FALSE)]_vars

\* the cutoff parameter was moved by the message thread while the audio
\* thread is inside processBlock with a selected filter
C30_Witness ==
    /\ IsFilterPlugin
    /\ plugin.pc = "loop"
    /\ plugin.last = [op |-> "parameterChanged", thread |-> "message"]
    /\ plugin.currentFilter # NullPtr
    /\ plugin.apvts.cutoff # plugin.loaded.cutoff
    /\ getCutoff(plugin.pool[plugin.currentFilter]) # plugin.apvts.cutoff
    /\ plugin.blocks > 0

====
